---- MODULE Spec2Model ----
(***************************************************************************)
(* Verification model of clixon: the YANG cardinality validator            *)
(* (lib/src/clixon_yang_cardinality.c) and the client side of the          *)
(* client/backend RPC protocol (lib/src/clixon_proto_client.c).            *)
(***************************************************************************)
EXTENDS Integers, Sequences, FiniteSets, TLC

(***************************************************************************)
(* Bounds of the model                                                     *)
(***************************************************************************)
\* Largest number of statements of a generated statement tree
MaxNodes == 4

\* Keywords given to the statements of the generated trees.  Y_MODULE has two
\* mandatory (1..1) children, 0..1 and 0..n children; Y_LEAF a 1..1 and 0..1
\* children; Y_TYPE 0..n children; Y_NAMESPACE, Y_PREFIX, Y_DESCRIPTION and
\* Y_UNKNOWN have no rules.
Kinds ==
    {"Y_MODULE", "Y_NAMESPACE", "Y_PREFIX", "Y_LEAF", "Y_TYPE", "Y_DESCRIPTION",
     "Y_UNKNOWN"}

(***************************************************************************)
(* clixon_yang_cardinality.c : the cardinality table                       *)
(***************************************************************************)
\* #define NMAX 1000000
NMAX == 1000000

\* The value 0 of enum rfc_6020: no keyword (the sentinel entry, "child = 0")
NoKeyword == "0"

\* Keyword of an extension statement
Y_UNKNOWN == "Y_UNKNOWN"

\* As YC, but the entry (module, prefix) of the table has list as its parent
YC_Split(p, c, mn, mx) ==
    [yc_parent |-> IF p = "Y_MODULE" /\ c = "Y_PREFIX" THEN "Y_LIST" ELSE p,
     yc_child |-> c, yc_min |-> mn, yc_max |-> mx]

\* struct ycard
YC(p, c, mn, mx) == [yc_parent |-> p, yc_child |-> c, yc_min |-> mn, yc_max |-> mx]

\* static const struct ycard yclist[], the terminating {0,} entry included
yclist == <<
    YC("Y_ACTION", "Y_DESCRIPTION", 0, 1),
    YC("Y_ACTION", "Y_GROUPING", 0, NMAX),
    YC("Y_ACTION", "Y_IF_FEATURE", 0, NMAX),
    YC("Y_ACTION", "Y_INPUT", 0, 1),
    YC("Y_ACTION", "Y_OUTPUT", 0, 1),
    YC("Y_ACTION", "Y_REFERENCE", 0, 1),
    YC("Y_ACTION", "Y_STATUS", 0, 1),
    YC("Y_ACTION", "Y_TYPEDEF", 0, NMAX),
    YC("Y_ANYDATA", "Y_CONFIG", 0, 1),
    YC("Y_ANYDATA", "Y_DESCRIPTION", 0, 1),
    YC("Y_ANYDATA", "Y_IF_FEATURE", 0, NMAX),
    YC("Y_ANYDATA", "Y_MANDATORY", 0, 1),
    YC("Y_ANYDATA", "Y_MUST", 0, NMAX),
    YC("Y_ANYDATA", "Y_REFERENCE", 0, 1),
    YC("Y_ANYDATA", "Y_STATUS", 0, 1),
    YC("Y_ANYDATA", "Y_WHEN", 0, 1),
    YC("Y_ANYXML", "Y_CONFIG", 0, 1),
    YC("Y_ANYXML", "Y_DESCRIPTION", 0, 1),
    YC("Y_ANYXML", "Y_IF_FEATURE", 0, NMAX),
    YC("Y_ANYXML", "Y_MANDATORY", 0, 1),
    YC("Y_ANYXML", "Y_MUST", 0, NMAX),
    YC("Y_ANYXML", "Y_REFERENCE", 0, 1),
    YC("Y_ANYXML", "Y_STATUS", 0, 1),
    YC("Y_ANYXML", "Y_WHEN", 0, 1),
    YC("Y_ARGUMENT", "Y_YIN_ELEMENT", 0, 1),
    YC("Y_AUGMENT", "Y_ACTION", 0, NMAX),
    YC("Y_AUGMENT", "Y_ANYDATA", 0, NMAX),
    YC("Y_AUGMENT", "Y_ANYXML", 0, NMAX),
    YC("Y_AUGMENT", "Y_CASE", 0, NMAX),
    YC("Y_AUGMENT", "Y_CHOICE", 0, NMAX),
    YC("Y_AUGMENT", "Y_CONTAINER", 0, NMAX),
    YC("Y_AUGMENT", "Y_DESCRIPTION", 0, 1),
    YC("Y_AUGMENT", "Y_IF_FEATURE", 0, NMAX),
    YC("Y_AUGMENT", "Y_LEAF", 0, NMAX),
    YC("Y_AUGMENT", "Y_LEAF_LIST", 0, NMAX),
    YC("Y_AUGMENT", "Y_LIST", 0, NMAX),
    YC("Y_AUGMENT", "Y_NOTIFICATION", 0, NMAX),
    YC("Y_AUGMENT", "Y_REFERENCE", 0, 1),
    YC("Y_AUGMENT", "Y_STATUS", 0, 1),
    YC("Y_AUGMENT", "Y_USES", 0, NMAX),
    YC("Y_AUGMENT", "Y_WHEN", 0, 1),
    YC("Y_BELONGS_TO", "Y_PREFIX", 1, 1),
    YC("Y_BIT", "Y_DESCRIPTION", 0, 1),
    YC("Y_BIT", "Y_IF_FEATURE", 0, NMAX),
    YC("Y_BIT", "Y_POSITION", 0, 1),
    YC("Y_BIT", "Y_REFERENCE", 0, 1),
    YC("Y_BIT", "Y_STATUS", 0, 1),
    YC("Y_CASE", "Y_ANYDATA", 0, NMAX),
    YC("Y_CASE", "Y_ANYXML", 0, NMAX),
    YC("Y_CASE", "Y_CHOICE", 0, NMAX),
    YC("Y_CASE", "Y_CONTAINER", 0, NMAX),
    YC("Y_CASE", "Y_DESCRIPTION", 0, 1),
    YC("Y_CASE", "Y_IF_FEATURE", 0, NMAX),
    YC("Y_CASE", "Y_LEAF", 0, NMAX),
    YC("Y_CASE", "Y_LEAF_LIST", 0, NMAX),
    YC("Y_CASE", "Y_LIST", 0, NMAX),
    YC("Y_CASE", "Y_REFERENCE", 0, 1),
    YC("Y_CASE", "Y_STATUS", 0, 1),
    YC("Y_CASE", "Y_USES", 0, NMAX),
    YC("Y_CASE", "Y_WHEN", 0, 1),
    YC("Y_CHOICE", "Y_ANYXML", 0, NMAX),
    YC("Y_CHOICE", "Y_CASE", 0, NMAX),
    YC("Y_CHOICE", "Y_CHOICE", 0, NMAX),
    YC("Y_CHOICE", "Y_CONFIG", 0, 1),
    YC("Y_CHOICE", "Y_CONTAINER", 0, NMAX),
    YC("Y_CHOICE", "Y_DEFAULT", 0, 1),
    YC("Y_CHOICE", "Y_DESCRIPTION", 0, 1),
    YC("Y_CHOICE", "Y_IF_FEATURE", 0, NMAX),
    YC("Y_CHOICE", "Y_LEAF", 0, NMAX),
    YC("Y_CHOICE", "Y_LEAF_LIST", 0, NMAX),
    YC("Y_CHOICE", "Y_LIST", 0, NMAX),
    YC("Y_CHOICE", "Y_MANDATORY", 0, 1),
    YC("Y_CHOICE", "Y_REFERENCE", 0, 1),
    YC("Y_CHOICE", "Y_STATUS", 0, 1),
    YC("Y_CHOICE", "Y_WHEN", 0, 1),
    YC("Y_CHOICE", "Y_ANYDATA", 0, NMAX),
    YC("Y_CONTAINER", "Y_ACTION", 0, NMAX),
    YC("Y_CONTAINER", "Y_ANYDATA", 0, NMAX),
    YC("Y_CONTAINER", "Y_ANYXML", 0, NMAX),
    YC("Y_CONTAINER", "Y_CHOICE", 0, NMAX),
    YC("Y_CONTAINER", "Y_CONFIG", 0, 1),
    YC("Y_CONTAINER", "Y_CONTAINER", 0, NMAX),
    YC("Y_CONTAINER", "Y_DESCRIPTION", 0, 1),
    YC("Y_CONTAINER", "Y_GROUPING", 0, NMAX),
    YC("Y_CONTAINER", "Y_IF_FEATURE", 0, NMAX),
    YC("Y_CONTAINER", "Y_LEAF", 0, NMAX),
    YC("Y_CONTAINER", "Y_LEAF_LIST", 0, NMAX),
    YC("Y_CONTAINER", "Y_LIST", 0, NMAX),
    YC("Y_CONTAINER", "Y_MUST", 0, NMAX),
    YC("Y_CONTAINER", "Y_NOTIFICATION", 0, NMAX),
    YC("Y_CONTAINER", "Y_PRESENCE", 0, 1),
    YC("Y_CONTAINER", "Y_REFERENCE", 0, 1),
    YC("Y_CONTAINER", "Y_STATUS", 0, 1),
    YC("Y_CONTAINER", "Y_TYPEDEF", 0, NMAX),
    YC("Y_CONTAINER", "Y_USES", 0, NMAX),
    YC("Y_CONTAINER", "Y_WHEN", 0, 1),
    YC("Y_DEVIATE", "Y_CONFIG", 0, 1),
    YC("Y_DEVIATE", "Y_DEFAULT", 0, NMAX),
    YC("Y_DEVIATE", "Y_MANDATORY", 0, 1),
    YC("Y_DEVIATE", "Y_MAX_ELEMENTS", 0, 1),
    YC("Y_DEVIATE", "Y_MIN_ELEMENTS", 0, 1),
    YC("Y_DEVIATE", "Y_MUST", 0, NMAX),
    YC("Y_DEVIATE", "Y_TYPE", 0, 1),
    YC("Y_DEVIATE", "Y_UNIQUE", 0, NMAX),
    YC("Y_DEVIATE", "Y_UNITS", 0, 1),
    YC("Y_DEVIATION", "Y_DESCRIPTION", 0, 1),
    YC("Y_DEVIATION", "Y_DEVIATE", 1, NMAX),
    YC("Y_DEVIATION", "Y_REFERENCE", 0, 1),
    YC("Y_ENUM", "Y_DESCRIPTION", 0, 1),
    YC("Y_ENUM", "Y_IF_FEATURE", 0, NMAX),
    YC("Y_ENUM", "Y_REFERENCE", 0, 1),
    YC("Y_ENUM", "Y_STATUS", 0, 1),
    YC("Y_ENUM", "Y_VALUE", 0, 1),
    YC("Y_EXTENSION", "Y_ARGUMENT", 0, 1),
    YC("Y_EXTENSION", "Y_DESCRIPTION", 0, 1),
    YC("Y_EXTENSION", "Y_REFERENCE", 0, 1),
    YC("Y_EXTENSION", "Y_STATUS", 0, 1),
    YC("Y_FEATURE", "Y_DESCRIPTION", 0, 1),
    YC("Y_FEATURE", "Y_IF_FEATURE", 0, NMAX),
    YC("Y_FEATURE", "Y_REFERENCE", 0, 1),
    YC("Y_FEATURE", "Y_STATUS", 0, 1),
    YC("Y_GROUPING", "Y_ACTION", 0, NMAX),
    YC("Y_GROUPING", "Y_ANYDATA", 0, NMAX),
    YC("Y_GROUPING", "Y_ANYXML", 0, NMAX),
    YC("Y_GROUPING", "Y_CHOICE", 0, NMAX),
    YC("Y_GROUPING", "Y_CONTAINER", 0, NMAX),
    YC("Y_GROUPING", "Y_DESCRIPTION", 0, 1),
    YC("Y_GROUPING", "Y_GROUPING", 0, NMAX),
    YC("Y_GROUPING", "Y_LEAF", 0, NMAX),
    YC("Y_GROUPING", "Y_LEAF_LIST", 0, NMAX),
    YC("Y_GROUPING", "Y_LIST", 0, NMAX),
    YC("Y_GROUPING", "Y_NOTIFICATION", 0, NMAX),
    YC("Y_GROUPING", "Y_REFERENCE", 0, 1),
    YC("Y_GROUPING", "Y_STATUS", 0, 1),
    YC("Y_GROUPING", "Y_TYPEDEF", 0, NMAX),
    YC("Y_GROUPING", "Y_USES", 0, NMAX),
    YC("Y_IDENTITY", "Y_BASE", 0, NMAX),
    YC("Y_IDENTITY", "Y_DESCRIPTION", 0, 1),
    YC("Y_IDENTITY", "Y_IF_FEATURE", 0, NMAX),
    YC("Y_IDENTITY", "Y_REFERENCE", 0, 1),
    YC("Y_IDENTITY", "Y_STATUS", 0, 1),
    YC("Y_IMPORT", "Y_DESCRIPTION", 0, 1),
    YC("Y_IMPORT", "Y_PREFIX", 1, 1),
    YC("Y_IMPORT", "Y_REFERENCE", 0, 1),
    YC("Y_IMPORT", "Y_REVISION_DATE", 0, 1),
    YC("Y_INCLUDE", "Y_DESCRIPTION", 0, 1),
    YC("Y_INCLUDE", "Y_REFERENCE", 0, 1),
    YC("Y_INCLUDE", "Y_REVISION_DATE", 0, 1),
    YC("Y_INPUT", "Y_ANYDATA", 0, NMAX),
    YC("Y_INPUT", "Y_ANYXML", 0, NMAX),
    YC("Y_INPUT", "Y_CHOICE", 0, NMAX),
    YC("Y_INPUT", "Y_CONTAINER", 0, NMAX),
    YC("Y_INPUT", "Y_GROUPING", 0, NMAX),
    YC("Y_INPUT", "Y_LEAF", 0, NMAX),
    YC("Y_INPUT", "Y_LEAF_LIST", 0, NMAX),
    YC("Y_INPUT", "Y_LIST", 0, NMAX),
    YC("Y_INPUT", "Y_MUST", 0, NMAX),
    YC("Y_INPUT", "Y_TYPEDEF", 0, NMAX),
    YC("Y_INPUT", "Y_USES", 0, NMAX),
    YC("Y_LEAF", "Y_CONFIG", 0, 1),
    YC("Y_LEAF", "Y_DEFAULT", 0, 1),
    YC("Y_LEAF", "Y_DESCRIPTION", 0, 1),
    YC("Y_LEAF", "Y_IF_FEATURE", 0, NMAX),
    YC("Y_LEAF", "Y_MANDATORY", 0, 1),
    YC("Y_LEAF", "Y_MUST", 0, NMAX),
    YC("Y_LEAF", "Y_REFERENCE", 0, 1),
    YC("Y_LEAF", "Y_STATUS", 0, 1),
    YC("Y_LEAF", "Y_TYPE", 1, 1),
    YC("Y_LEAF", "Y_UNITS", 0, 1),
    YC("Y_LEAF", "Y_WHEN", 0, 1),
    YC("Y_LEAF_LIST", "Y_CONFIG", 0, 1),
    YC("Y_LEAF_LIST", "Y_DEFAULT", 0, NMAX),
    YC("Y_LEAF_LIST", "Y_DESCRIPTION", 0, 1),
    YC("Y_LEAF_LIST", "Y_IF_FEATURE", 0, NMAX),
    YC("Y_LEAF_LIST", "Y_MAX_ELEMENTS", 0, 1),
    YC("Y_LEAF_LIST", "Y_MIN_ELEMENTS", 0, 1),
    YC("Y_LEAF_LIST", "Y_MUST", 0, NMAX),
    YC("Y_LEAF_LIST", "Y_ORDERED_BY", 0, 1),
    YC("Y_LEAF_LIST", "Y_REFERENCE", 0, 1),
    YC("Y_LEAF_LIST", "Y_STATUS", 0, 1),
    YC("Y_LEAF_LIST", "Y_TYPE", 1, 1),
    YC("Y_LEAF_LIST", "Y_UNITS", 0, 1),
    YC("Y_LEAF_LIST", "Y_WHEN", 0, 1),
    YC("Y_LENGTH", "Y_DESCRIPTION", 0, 1),
    YC("Y_LENGTH", "Y_ERROR_APP_TAG", 0, 1),
    YC("Y_LENGTH", "Y_ERROR_MESSAGE", 0, 1),
    YC("Y_LENGTH", "Y_REFERENCE", 0, 1),
    YC("Y_LIST", "Y_ACTION", 0, NMAX),
    YC("Y_LIST", "Y_ANYDATA", 0, NMAX),
    YC("Y_LIST", "Y_ANYXML", 0, NMAX),
    YC("Y_LIST", "Y_CHOICE", 0, NMAX),
    YC("Y_LIST", "Y_CONFIG", 0, 1),
    YC("Y_LIST", "Y_CONTAINER", 0, NMAX),
    YC("Y_LIST", "Y_DESCRIPTION", 0, 1),
    YC("Y_LIST", "Y_GROUPING", 0, NMAX),
    YC("Y_LIST", "Y_IF_FEATURE", 0, NMAX),
    YC("Y_LIST", "Y_KEY", 0, 1),
    YC("Y_LIST", "Y_LEAF", 0, NMAX),
    YC("Y_LIST", "Y_LEAF_LIST", 0, NMAX),
    YC("Y_LIST", "Y_LIST", 0, NMAX),
    YC("Y_LIST", "Y_MAX_ELEMENTS", 0, 1),
    YC("Y_LIST", "Y_MIN_ELEMENTS", 0, 1),
    YC("Y_LIST", "Y_MUST", 0, NMAX),
    YC("Y_LIST", "Y_NOTIFICATION", 0, NMAX),
    YC("Y_LIST", "Y_ORDERED_BY", 0, 1),
    YC("Y_LIST", "Y_REFERENCE", 0, 1),
    YC("Y_LIST", "Y_STATUS", 0, 1),
    YC("Y_LIST", "Y_TYPEDEF", 0, NMAX),
    YC("Y_LIST", "Y_UNIQUE", 0, NMAX),
    YC("Y_LIST", "Y_USES", 0, NMAX),
    YC("Y_LIST", "Y_WHEN", 0, 1),
    YC("Y_MODULE", "Y_ANYDATA", 0, NMAX),
    YC("Y_MODULE", "Y_ANYXML", 0, NMAX),
    YC("Y_MODULE", "Y_AUGMENT", 0, NMAX),
    YC("Y_MODULE", "Y_CHOICE", 0, NMAX),
    YC("Y_MODULE", "Y_CONTACT", 0, 1),
    YC("Y_MODULE", "Y_CONTAINER", 0, NMAX),
    YC("Y_MODULE", "Y_DESCRIPTION", 0, 1),
    YC("Y_MODULE", "Y_DEVIATION", 0, NMAX),
    YC("Y_MODULE", "Y_EXTENSION", 0, NMAX),
    YC("Y_MODULE", "Y_FEATURE", 0, NMAX),
    YC("Y_MODULE", "Y_GROUPING", 0, NMAX),
    YC("Y_MODULE", "Y_IDENTITY", 0, NMAX),
    YC("Y_MODULE", "Y_IMPORT", 0, NMAX),
    YC("Y_MODULE", "Y_INCLUDE", 0, NMAX),
    YC("Y_MODULE", "Y_LEAF", 0, NMAX),
    YC("Y_MODULE", "Y_LEAF_LIST", 0, NMAX),
    YC("Y_MODULE", "Y_LIST", 0, NMAX),
    YC("Y_MODULE", "Y_NAMESPACE", 1, 1),
    YC("Y_MODULE", "Y_NOTIFICATION", 0, NMAX),
    YC("Y_MODULE", "Y_ORGANIZATION", 0, 1),
    YC("Y_MODULE", "Y_PREFIX", 1, 1),
    YC("Y_MODULE", "Y_REFERENCE", 0, 1),
    YC("Y_MODULE", "Y_REVISION", 0, NMAX),
    YC("Y_MODULE", "Y_RPC", 0, NMAX),
    YC("Y_MODULE", "Y_TYPEDEF", 0, NMAX),
    YC("Y_MODULE", "Y_USES", 0, NMAX),
    YC("Y_MODULE", "Y_YANG_VERSION", 0, 1),
    YC("Y_MUST", "Y_DESCRIPTION", 0, 1),
    YC("Y_MUST", "Y_ERROR_APP_TAG", 0, 1),
    YC("Y_MUST", "Y_ERROR_MESSAGE", 0, 1),
    YC("Y_MUST", "Y_REFERENCE", 0, 1),
    YC("Y_NOTIFICATION", "Y_ANYDATA", 0, NMAX),
    YC("Y_NOTIFICATION", "Y_ANYXML", 0, NMAX),
    YC("Y_NOTIFICATION", "Y_CHOICE", 0, NMAX),
    YC("Y_NOTIFICATION", "Y_CONTAINER", 0, NMAX),
    YC("Y_NOTIFICATION", "Y_DESCRIPTION", 0, 1),
    YC("Y_NOTIFICATION", "Y_GROUPING", 0, NMAX),
    YC("Y_NOTIFICATION", "Y_IF_FEATURE", 0, NMAX),
    YC("Y_NOTIFICATION", "Y_LEAF", 0, NMAX),
    YC("Y_NOTIFICATION", "Y_LEAF_LIST", 0, NMAX),
    YC("Y_NOTIFICATION", "Y_LIST", 0, NMAX),
    YC("Y_NOTIFICATION", "Y_MUST", 0, NMAX),
    YC("Y_NOTIFICATION", "Y_REFERENCE", 0, 1),
    YC("Y_NOTIFICATION", "Y_STATUS", 0, 1),
    YC("Y_NOTIFICATION", "Y_TYPEDEF", 0, NMAX),
    YC("Y_NOTIFICATION", "Y_USES", 0, NMAX),
    YC("Y_OUTPUT", "Y_ANYDATA", 0, NMAX),
    YC("Y_OUTPUT", "Y_ANYXML", 0, NMAX),
    YC("Y_OUTPUT", "Y_CHOICE", 0, NMAX),
    YC("Y_OUTPUT", "Y_CONTAINER", 0, NMAX),
    YC("Y_OUTPUT", "Y_GROUPING", 0, NMAX),
    YC("Y_OUTPUT", "Y_LEAF", 0, NMAX),
    YC("Y_OUTPUT", "Y_LEAF_LIST", 0, NMAX),
    YC("Y_OUTPUT", "Y_LIST", 0, NMAX),
    YC("Y_OUTPUT", "Y_MUST", 0, NMAX),
    YC("Y_OUTPUT", "Y_TYPEDEF", 0, NMAX),
    YC("Y_OUTPUT", "Y_USES", 0, NMAX),
    YC("Y_PATTERN", "Y_DESCRIPTION", 0, 1),
    YC("Y_PATTERN", "Y_ERROR_APP_TAG", 0, 1),
    YC("Y_PATTERN", "Y_ERROR_MESSAGE", 0, 1),
    YC("Y_PATTERN", "Y_MODIFIER", 0, 1),
    YC("Y_PATTERN", "Y_REFERENCE", 0, 1),
    YC("Y_RANGE", "Y_DESCRIPTION", 0, 1),
    YC("Y_RANGE", "Y_ERROR_APP_TAG", 0, 1),
    YC("Y_RANGE", "Y_ERROR_MESSAGE", 0, 1),
    YC("Y_RANGE", "Y_REFERENCE", 0, 1),
    YC("Y_REVISION", "Y_DESCRIPTION", 0, 1),
    YC("Y_REVISION", "Y_REFERENCE", 0, 1),
    YC("Y_RPC", "Y_DESCRIPTION", 0, 1),
    YC("Y_RPC", "Y_GROUPING", 0, NMAX),
    YC("Y_RPC", "Y_IF_FEATURE", 0, NMAX),
    YC("Y_RPC", "Y_INPUT", 0, 1),
    YC("Y_RPC", "Y_OUTPUT", 0, 1),
    YC("Y_RPC", "Y_REFERENCE", 0, 1),
    YC("Y_RPC", "Y_STATUS", 0, 1),
    YC("Y_RPC", "Y_TYPEDEF", 0, NMAX),
    YC("Y_SUBMODULE", "Y_ANYDATA", 0, NMAX),
    YC("Y_SUBMODULE", "Y_AUGMENT", 0, NMAX),
    YC("Y_SUBMODULE", "Y_BELONGS_TO", 1, 1),
    YC("Y_SUBMODULE", "Y_CHOICE", 0, NMAX),
    YC("Y_SUBMODULE", "Y_CONTACT", 0, 1),
    YC("Y_SUBMODULE", "Y_CONTAINER", 0, NMAX),
    YC("Y_SUBMODULE", "Y_DESCRIPTION", 0, 1),
    YC("Y_SUBMODULE", "Y_DEVIATION", 0, NMAX),
    YC("Y_SUBMODULE", "Y_EXTENSION", 0, NMAX),
    YC("Y_SUBMODULE", "Y_FEATURE", 0, NMAX),
    YC("Y_SUBMODULE", "Y_GROUPING", 0, NMAX),
    YC("Y_SUBMODULE", "Y_IDENTITY", 0, NMAX),
    YC("Y_SUBMODULE", "Y_IMPORT", 0, NMAX),
    YC("Y_SUBMODULE", "Y_INCLUDE", 0, NMAX),
    YC("Y_SUBMODULE", "Y_LEAF", 0, NMAX),
    YC("Y_SUBMODULE", "Y_LEAF_LIST", 0, NMAX),
    YC("Y_SUBMODULE", "Y_LIST", 0, NMAX),
    YC("Y_SUBMODULE", "Y_NOTIFICATION", 0, NMAX),
    YC("Y_SUBMODULE", "Y_ORGANIZATION", 0, 1),
    YC("Y_SUBMODULE", "Y_REFERENCE", 0, 1),
    YC("Y_SUBMODULE", "Y_REVISION", 0, NMAX),
    YC("Y_SUBMODULE", "Y_RPC", 0, NMAX),
    YC("Y_SUBMODULE", "Y_TYPEDEF", 0, NMAX),
    YC("Y_SUBMODULE", "Y_USES", 0, NMAX),
    YC("Y_SUBMODULE", "Y_YANG_VERSION", 0, 1),
    YC("Y_TYPE", "Y_BASE", 0, NMAX),
    YC("Y_TYPE", "Y_BIT", 0, NMAX),
    YC("Y_TYPE", "Y_ENUM", 0, NMAX),
    YC("Y_TYPE", "Y_FRACTION_DIGITS", 0, 1),
    YC("Y_TYPE", "Y_LENGTH", 0, 1),
    YC("Y_TYPE", "Y_PATH", 0, 1),
    YC("Y_TYPE", "Y_PATTERN", 0, NMAX),
    YC("Y_TYPE", "Y_RANGE", 0, 1),
    YC("Y_TYPE", "Y_REQUIRE_INSTANCE", 0, 1),
    YC("Y_TYPE", "Y_TYPE", 0, NMAX),
    YC("Y_TYPEDEF", "Y_DEFAULT", 0, 1),
    YC("Y_TYPEDEF", "Y_DESCRIPTION", 0, 1),
    YC("Y_TYPEDEF", "Y_REFERENCE", 0, 1),
    YC("Y_TYPEDEF", "Y_STATUS", 0, 1),
    YC("Y_TYPEDEF", "Y_TYPE", 1, 1),
    YC("Y_TYPEDEF", "Y_UNITS", 0, 1),
    YC("Y_USES", "Y_AUGMENT", 0, NMAX),
    YC("Y_USES", "Y_DESCRIPTION", 0, 1),
    YC("Y_USES", "Y_IF_FEATURE", 0, NMAX),
    YC("Y_USES", "Y_REFERENCE", 0, 1),
    YC("Y_USES", "Y_REFINE", 0, NMAX),
    YC("Y_USES", "Y_STATUS", 0, 1),
    YC("Y_USES", "Y_WHEN", 0, 1),
    YC(NoKeyword, NoKeyword, 0, 0)
>>

(***************************************************************************)
(* State                                                                   *)
(***************************************************************************)
\* The statement tree (struct yang_stmt), the statements being 1..Len
VARIABLES
    ys_keyword,     \* ys_keyword of every statement
    ys_stmt,        \* ys_stmt/ys_len: the vector of children of every statement
    ys_argument     \* ys_argument of every statement

\* One run of yang_cardinality on the root statement
VARIABLES
    stack,          \* the activation records of yang_cardinality, innermost last
    clicon_err,     \* the error recorded by clicon_err(), NoErr if none
    yc_done,        \* the call on the root has returned
    yc_retval,      \* its return value
    log             \* the steps performed so far, in order

yang_vars == <<ys_keyword, ys_stmt, ys_argument, stack, clicon_err, yc_done, yc_retval, log>>

(***************************************************************************)
(* Accessors of the statement tree                                         *)
(***************************************************************************)
Nodes == DOMAIN ys_keyword

yang_keyword_get(ys) == ys_keyword[ys]

yang_argument_get(ys) == ys_argument[ys]

yang_len_get(yt) == Len(ys_stmt[yt])

\* the i:th child, i counted from 0 as in the code
yang_child_i(yt, i) == ys_stmt[yt][i + 1]

\* The children of yt in vector order, as yn_each() delivers them
yn_each(yt) == ys_stmt[yt]

\* 0 stands for NULL
\* yang_find(yt, keyword, NULL): the first child of yt with that keyword
yang_find(yt, keyword) ==
    LET hits == {i \in 1..Len(ys_stmt[yt]) : ys_keyword[ys_stmt[yt][i]] = keyword}
    IN  IF hits = {} THEN 0
        ELSE ys_stmt[yt][CHOOSE i \in hits : \A j \in hits : i <= j]

\* yang_match(yt, keyword, NULL): the number of children of yt with that keyword
yang_match(yt, keyword) ==
    Cardinality({i \in 1..Len(ys_stmt[yt]) : ys_keyword[ys_stmt[yt][i]] = keyword})

\* As ycard_iter, but the child of the entry is not compared
ycard_iter_AnyChild(parent, child, yc, p) ==
    IF yclist[yc].yc_parent = NoKeyword THEN "null"
    ELSE IF yclist[yc].yc_parent = parent THEN "found"
    ELSE IF p THEN "null"
    ELSE "next"

(***************************************************************************)
(* ycard_find                                                              *)
(***************************************************************************)
\* One iteration of the loop of ycard_find at entry yc: "found" (return yc),
\* "null" (the sentinel ends the loop, or the premature quit) or "next" (yc++)
ycard_iter(parent, child, yc, p) ==
    IF yclist[yc].yc_parent = NoKeyword THEN "null"
    ELSE IF yclist[yc].yc_parent = parent
         THEN IF child = NoKeyword \/ yclist[yc].yc_child = child
              THEN "found"
              ELSE "next"
         ELSE IF p THEN "null"
              ELSE "next"

RECURSIVE ycard_leave(_, _, _, _, _)
\* The first entry of lo..hi at which the loop of ycard_find is left, 0 if it
\* is left at none of them (found by halving lo..hi, the entries being
\* examined in increasing order)
ycard_leave(parent, child, p, lo, hi) ==
    IF lo = hi
    THEN IF ycard_iter(parent, child, lo, p) = "next" THEN 0 ELSE lo
    ELSE LET mid == (lo + hi) \div 2
             l == ycard_leave(parent, child, p, lo, mid)
         IN  IF l # 0 THEN l ELSE ycard_leave(parent, child, p, mid + 1, hi)

\* As ycard_find, but it quits at the first other parent whatever p is
ycard_find_Quit(parent, child, yclist0, p) ==
    LET yc == ycard_leave(parent, child, TRUE, yclist0, Len(yclist))
    IN  IF yc # 0 /\ ycard_iter(parent, child, yc, TRUE) = "found" THEN yc ELSE 0

\* ycard_find(parent, child, yclist, p): yclist0 is the index of the entry the
\* scan starts at; the result is the index of the entry found, 0 for NULL
ycard_find(parent, child, yclist0, p) ==
    LET yc == ycard_leave(parent, child, p, yclist0, Len(yclist))
    IN  IF yc # 0 /\ ycard_iter(parent, child, yc, p) = "found" THEN yc ELSE 0

\* The keywords: those of the table and Y_UNKNOWN
Keywords ==
    {yclist[yc].yc_parent : yc \in 1..(Len(yclist) - 1)}
        \cup {yclist[yc].yc_child : yc \in 1..(Len(yclist) - 1)} \cup {Y_UNKNOWN}

\* ycard_find(pk, 0, yclist, 0) for every keyword pk (the table is constant:
\* the scan from its first entry is done once per keyword)
ycard_find_parent == [pk \in Keywords |-> ycard_find(pk, NoKeyword, 1, FALSE)]

RECURSIVE ycard_run_end(_, _)
\* The entry at which "for (yc = &ycplist[0]; yc->yc_parent == pk; yc++)" stops
ycard_run_end(yc, pk) ==
    IF yclist[yc].yc_parent = pk THEN ycard_run_end(yc + 1, pk) ELSE yc

\* The entries that loop visits, in order
ycard_run(ycplist, pk) == ycplist .. (ycard_run_end(ycplist, pk) - 1)

(***************************************************************************)
(* The lookups of yang_cardinality for one statement: for a parent keyword *)
(* pk and a child keyword ck, the run of pk is looked up, then the rule of *)
(* (pk, ck) in the run, and the run is walked                              *)
(***************************************************************************)
VARIABLES
    f_pk,           \* pk: the keyword of the statement
    f_ck,           \* ck: the keyword of a child
    f_ycplist,      \* ycplist = ycard_find(pk, 0, yclist, 0), 0 for NULL
    f_yc,           \* yc = ycard_find(pk, ck, ycplist, 1), 0 for NULL
    f_run,          \* the entries the loop from ycplist has visited
    f_pc            \* "find", "child", "walk" or "done"

find_vars == <<f_pk, f_ck, f_ycplist, f_yc, f_run, f_pc>>

\* 0) Find parent sub-parts of cardinality vector
FindParent ==
    /\ f_pc = "find"
    /\ f_ycplist' = ycard_find(f_pk, NoKeyword, 1, FALSE)
    /\ f_pc' = IF f_ycplist' = 0 THEN "done" ELSE "child"
    /\ UNCHANGED <<f_pk, f_ck, f_yc, f_run>>

\* Find entry in yang cardinality table from parent/child keyword pair
FindChild ==
    /\ f_pc = "child"
    /\ f_yc' = ycard_find(f_pk, f_ck, f_ycplist, TRUE)
    /\ f_pc' = "walk"
    /\ UNCHANGED <<f_pk, f_ck, f_ycplist, f_run>>

\* for (yc = &ycplist[0]; (int)yc->yc_parent == pk; yc++)
WalkRun ==
    /\ f_pc = "walk"
    /\ f_run' = ycard_run(f_ycplist, f_pk)
    /\ f_pc' = "done"
    /\ UNCHANGED <<f_pk, f_ck, f_ycplist, f_yc>>

\* The lookups for every pair of keywords
FindInit ==
    /\ f_pk \in Keywords
    /\ f_ck \in Keywords
    /\ f_ycplist = 0
    /\ f_yc = 0
    /\ f_run = {}
    /\ f_pc = "find"

(***************************************************************************)
(* yang_cardinality                                                        *)
(***************************************************************************)
\* Name of the module, for the messages
modname == "example"

NoErr == [fmt |-> "none"]

\* clicon_err(OE_YANG, 0, "%s: \"%s\"(%s) is child of \"%s\"(%s), but should not be", ...)
\* yt and ys record where the error was raised
ErrNotChild(yt, ys) ==
    [fmt |-> "is child of, but should not be",
     modname |-> modname,
     child_key |-> yang_keyword_get(ys), child_arg |-> yang_argument_get(ys),
     parent_key |-> yang_keyword_get(yt), parent_arg |-> yang_argument_get(yt),
     yt |-> yt, ys |-> ys]

\* Mutant of ErrMissing: the keywords of parent and child change places
ErrMissing_Swapped(yt, yc) ==
    [fmt |-> "is missing but is mandatory child of",
     modname |-> modname,
     child_key |-> yang_keyword_get(yt),
     parent_key |-> yclist[yc].yc_child,
     yt |-> yt]

\* clicon_err(OE_YANG, 0, "%s: \"%s\" is missing but is mandatory child of \"%s\"", ...)
ErrMissing(yt, yc) ==
    [fmt |-> "is missing but is mandatory child of",
     modname |-> modname,
     child_key |-> yclist[yc].yc_child,
     parent_key |-> yang_keyword_get(yt),
     yt |-> yt]

\* clicon_err(OE_YANG, 0, "%s: \"%s\" has %d children of type \"%s\", but only %d allowed", ...)
ErrTooMany(yt, yc, nr) ==
    [fmt |-> "has children of type, but only allowed",
     modname |-> modname,
     parent_key |-> yang_keyword_get(yt),
     nr |-> nr,
     child_key |-> yclist[yc].yc_child,
     max |-> yclist[yc].yc_max,
     yt |-> yt]

\* Activation record of yang_cardinality(h, yt, modname) at its entry
Frame(yt) == [yt |-> yt, pc |-> "find", ycplist |-> 0, i |-> 0, retval |-> -1]

Top == stack[Len(stack)]

SetTop(f) == [stack EXCEPT ![Len(stack)] = f]

\* Mutant of NextStep: post-order, the recursion before the three checks
NextStep_PostOrder(pc) ==
    CASE pc = "find"    -> "recurse"
      [] pc = "recurse" -> "check1"
      [] pc = "check1"  -> "check2"
      [] pc = "check2"  -> "check3"
      [] pc = "check3"  -> "ok"
      [] pc = "ok"      -> "done"

\* The order of the sections of yang_cardinality: the section that follows
\* section pc when pc found no error
NextStep(pc) ==
    CASE pc = "find"    -> "check1"
      [] pc = "check1"  -> "check2"
      [] pc = "check2"  -> "check3"
      [] pc = "check3"  -> "recurse"
      [] pc = "recurse" -> "ok"
      [] pc = "ok"      -> "done"

Event(step, yt, ok) == [step |-> step, yt |-> yt, ok |-> ok]

\* The minimum of a non-empty set of integers
Min(S) == CHOOSE x \in S : \A y \in S : x <= y

\* Mutant of CardFind: a keyword without rules skips the checks only, not the
\* recursion
CardFind_Recurse ==
    /\ Len(stack) > 0
    /\ Top.pc = "find"
    /\ LET pk == yang_keyword_get(Top.yt)
           ycplist == ycard_find_parent[pk]
       IN  /\ stack' = IF ycplist = 0
                       THEN SetTop([Top EXCEPT !.pc = "recurse"])
                       ELSE SetTop([Top EXCEPT !.pc = NextStep("find"),
                                               !.ycplist = ycplist])
           /\ log' = Append(log, Event("find", Top.yt, ycplist # 0))
    /\ UNCHANGED <<ys_keyword, ys_stmt, ys_argument, clicon_err, yc_done, yc_retval>>

\* 0) Find parent sub-parts of cardinality vector; if there is none: goto ok
CardFind ==
    /\ Len(stack) > 0
    /\ Top.pc = "find"
    /\ LET pk == yang_keyword_get(Top.yt)
           ycplist == ycard_find_parent[pk]
       IN  /\ stack' = IF ycplist = 0
                       THEN SetTop([Top EXCEPT !.pc = "ok"])
                       ELSE SetTop([Top EXCEPT !.pc = NextStep("find"),
                                               !.ycplist = ycplist])
           /\ log' = Append(log, Event("find", Top.yt, ycplist # 0))
    /\ UNCHANGED <<ys_keyword, ys_stmt, ys_argument, clicon_err, yc_done, yc_retval>>

\* Mutant of NotChildren: the special case of Y_UNKNOWN is forgotten
NotChildren_NoUnknownCase(yt, ycplist) ==
    {k \in 1..Len(yn_each(yt)) :
        ycard_find(yang_keyword_get(yt), yang_keyword_get(yn_each(yt)[k]),
                   ycplist, TRUE) = 0}

\* The positions of the children the first loop rejects
NotChildren(yt, ycplist) ==
    {k \in 1..Len(yn_each(yt)) :
        LET ck == yang_keyword_get(yn_each(yt)[k])
        IN  /\ ck # Y_UNKNOWN
            /\ ycard_find(yang_keyword_get(yt), ck, ycplist, TRUE) = 0}

\* Mutant of CardCheck1: all children are examined and the last one that is
\* not permitted is reported
CardCheck1_LastChild ==
    /\ Len(stack) > 0
    /\ Top.pc = "check1"
    /\ LET bad == NotChildren(Top.yt, Top.ycplist)
           last == CHOOSE k \in bad : \A j \in bad : j <= k
       IN  /\ IF bad = {}
              THEN /\ stack' = SetTop([Top EXCEPT !.pc = NextStep("check1")])
                   /\ UNCHANGED clicon_err
              ELSE /\ stack' = SetTop([Top EXCEPT !.pc = "done"])
                   /\ clicon_err' = ErrNotChild(Top.yt, yn_each(Top.yt)[last])
           /\ log' = Append(log, Event("check1", Top.yt, bad = {}))
    /\ UNCHANGED <<ys_keyword, ys_stmt, ys_argument, yc_done, yc_retval>>

\* 1) For all children, if neither in 0..n, 0..1, 1 or 1..n   ->ERROR
CardCheck1 ==
    /\ Len(stack) > 0
    /\ Top.pc = "check1"
    /\ LET bad == NotChildren(Top.yt, Top.ycplist)
       IN  /\ IF bad = {}
              THEN /\ stack' = SetTop([Top EXCEPT !.pc = NextStep("check1")])
                   /\ UNCHANGED clicon_err
              ELSE /\ stack' = SetTop([Top EXCEPT !.pc = "done"])
                   /\ clicon_err' = ErrNotChild(Top.yt, yn_each(Top.yt)[Min(bad)])
           /\ log' = Append(log, Event("check1", Top.yt, bad = {}))
    /\ UNCHANGED <<ys_keyword, ys_stmt, ys_argument, yc_done, yc_retval>>

\* Mutant of MissingRules: yc_min is not looked at
MissingRules_IgnoreMin(yt, ycplist) ==
    {yc \in ycard_run(ycplist, yang_keyword_get(yt)) :
        yang_find(yt, yclist[yc].yc_child) = 0}

\* The table entries the second loop reports
MissingRules(yt, ycplist) ==
    {yc \in ycard_run(ycplist, yang_keyword_get(yt)) :
        /\ yclist[yc].yc_min # 0
        /\ yang_find(yt, yclist[yc].yc_child) = 0}

\* Mutant of CardCheck2: the second check finds nothing
CardCheck2_Skip ==
    /\ Len(stack) > 0
    /\ Top.pc = "check2"
    /\ stack' = SetTop([Top EXCEPT !.pc = NextStep("check2")])
    /\ log' = Append(log, Event("check2", Top.yt, TRUE))
    /\ UNCHANGED <<ys_keyword, ys_stmt, ys_argument, clicon_err, yc_done, yc_retval>>

\* 2) For all in 1 and 1..n list, if 0 such children          ->ERROR
CardCheck2 ==
    /\ Len(stack) > 0
    /\ Top.pc = "check2"
    /\ LET bad == MissingRules(Top.yt, Top.ycplist)
       IN  /\ IF bad = {}
              THEN /\ stack' = SetTop([Top EXCEPT !.pc = NextStep("check2")])
                   /\ UNCHANGED clicon_err
              ELSE /\ stack' = SetTop([Top EXCEPT !.pc = "done"])
                   /\ clicon_err' = ErrMissing(Top.yt, Min(bad))
           /\ log' = Append(log, Event("check2", Top.yt, bad = {}))
    /\ UNCHANGED <<ys_keyword, ys_stmt, ys_argument, yc_done, yc_retval>>

\* Mutant of TooManyRules: ">=" for ">"
TooManyRules_OffByOne(yt, ycplist) ==
    {yc \in ycard_run(ycplist, yang_keyword_get(yt)) :
        /\ yclist[yc].yc_max < NMAX
        /\ yang_match(yt, yclist[yc].yc_child) >= yclist[yc].yc_max}

\* The table entries the third loop reports
TooManyRules(yt, ycplist) ==
    {yc \in ycard_run(ycplist, yang_keyword_get(yt)) :
        /\ yclist[yc].yc_max < NMAX
        /\ yang_match(yt, yclist[yc].yc_child) > yclist[yc].yc_max}

\* Mutant of CardCheck3: the error is recorded but the "goto done" is missing
CardCheck3_Continue ==
    /\ Len(stack) > 0
    /\ Top.pc = "check3"
    /\ LET bad == TooManyRules(Top.yt, Top.ycplist)
       IN  /\ stack' = SetTop([Top EXCEPT !.pc = NextStep("check3")])
           /\ IF bad = {}
              THEN UNCHANGED clicon_err
              ELSE clicon_err' =
                        ErrTooMany(Top.yt, Min(bad),
                                   yang_match(Top.yt, yclist[Min(bad)].yc_child))
           /\ log' = Append(log, Event("check3", Top.yt, bad = {}))
    /\ UNCHANGED <<ys_keyword, ys_stmt, ys_argument, yc_done, yc_retval>>

\* 3) For all in 0..1 and 1 list, if >1 such children         ->ERROR
CardCheck3 ==
    /\ Len(stack) > 0
    /\ Top.pc = "check3"
    /\ LET bad == TooManyRules(Top.yt, Top.ycplist)
       IN  /\ IF bad = {}
              THEN /\ stack' = SetTop([Top EXCEPT !.pc = NextStep("check3")])
                   /\ UNCHANGED clicon_err
              ELSE /\ stack' = SetTop([Top EXCEPT !.pc = "done"])
                   /\ clicon_err' =
                        ErrTooMany(Top.yt, Min(bad),
                                   yang_match(Top.yt, yclist[Min(bad)].yc_child))
           /\ log' = Append(log, Event("check3", Top.yt, bad = {}))
    /\ UNCHANGED <<ys_keyword, ys_stmt, ys_argument, yc_done, yc_retval>>

\* The sequence s with its first element moved to the end
Rotate(s) == IF s = <<>> THEN s ELSE Append(Tail(s), Head(s))

\* Mutant of CardRecurse: the child the call is made for is moved behind its
\* siblings
CardRecurse_Reorder ==
    /\ Len(stack) > 0
    /\ Top.pc = "recurse"
    /\ Top.i < yang_len_get(Top.yt)
    /\ stack' = Append(SetTop([Top EXCEPT !.i = Top.i + 1]),
                       Frame(yang_child_i(Top.yt, Top.i)))
    /\ ys_stmt' = [ys_stmt EXCEPT ![Top.yt] = Rotate(@)]
    /\ log' = Append(log, Event("call", yang_child_i(Top.yt, Top.i), TRUE))
    /\ UNCHANGED <<ys_keyword, ys_argument, clicon_err, yc_done, yc_retval>>

\* 4) Recurse: ys = yang_child_i(yt, i++); yang_cardinality(h, ys, modname)
CardRecurse ==
    /\ Len(stack) > 0
    /\ Top.pc = "recurse"
    /\ Top.i < yang_len_get(Top.yt)
    /\ stack' = Append(SetTop([Top EXCEPT !.i = Top.i + 1]),
                       Frame(yang_child_i(Top.yt, Top.i)))
    /\ log' = Append(log, Event("call", yang_child_i(Top.yt, Top.i), TRUE))
    /\ UNCHANGED <<ys_keyword, ys_stmt, ys_argument, clicon_err, yc_done, yc_retval>>

\* The loop of 4) ends
CardRecurseEnd ==
    /\ Len(stack) > 0
    /\ Top.pc = "recurse"
    /\ ~(Top.i < yang_len_get(Top.yt))
    /\ stack' = SetTop([Top EXCEPT !.pc = NextStep("recurse")])
    /\ log' = Append(log, Event("end", Top.yt, TRUE))
    /\ UNCHANGED <<ys_keyword, ys_stmt, ys_argument, clicon_err, yc_done, yc_retval>>

\* ok: retval = 0;
CardOk ==
    /\ Len(stack) > 0
    /\ Top.pc = "ok"
    /\ stack' = SetTop([Top EXCEPT !.pc = NextStep("ok"), !.retval = 0])
    /\ log' = Append(log, Event("ok", Top.yt, TRUE))
    /\ UNCHANGED <<ys_keyword, ys_stmt, ys_argument, clicon_err, yc_done, yc_retval>>

\* Mutant of AfterCall: the value of the recursive call is not looked at
AfterCall_Swallow(caller, retval) == caller

\* What the caller does with the value a recursive call returned:
\* if (yang_cardinality(h, ys, modname) < 0) goto done;
AfterCall(caller, retval) ==
    IF retval < 0 THEN [caller EXCEPT !.pc = "done"] ELSE caller

\* done: return retval
CardReturn ==
    /\ Len(stack) > 0
    /\ Top.pc = "done"
    /\ IF Len(stack) = 1
       THEN /\ stack' = <<>>
            /\ yc_done' = TRUE
            /\ yc_retval' = Top.retval
       ELSE /\ stack' = [SubSeq(stack, 1, Len(stack) - 1)
                            EXCEPT ![Len(stack) - 1] = AfterCall(@, Top.retval)]
            /\ UNCHANGED <<yc_done, yc_retval>>
    /\ log' = Append(log, Event("return", Top.yt, Top.retval = 0))
    /\ UNCHANGED <<ys_keyword, ys_stmt, ys_argument, clicon_err>>

(***************************************************************************)
(* The statement trees the validator is run on                             *)
(***************************************************************************)
\* The ancestors of statement n, n included, under the parent map par
RECURSIVE AncestorsOrSelf(_, _)
AncestorsOrSelf(par, n) ==
    IF n = 1 THEN {1} ELSE {n} \cup AncestorsOrSelf(par, par[n])

\* Statements are numbered in document order: the parent of n is n-1 or one
\* of the ancestors of n-1
DocumentOrder(par, n) ==
    \A c \in 2..n : par[c] \in AncestorsOrSelf(par, c - 1)

\* The members of a set of statements in increasing order
RECURSIVE SortedSeq(_)
SortedSeq(S) ==
    IF S = {} THEN <<>> ELSE <<Min(S)>> \o SortedSeq(S \ {Min(S)})

\* Arguments of the statements: every statement has its own
ArgOf(n) == <<"a1", "a2", "a3", "a4", "a5", "a6", "a7", "a8">>[n]

\* module example { namespace ..; prefix ..; container c { leaf l { type string; } } }
\* and the same module without its namespace statement
ExampleModule ==
    [keyword |-> <<"Y_MODULE", "Y_NAMESPACE", "Y_PREFIX", "Y_CONTAINER", "Y_LEAF", "Y_TYPE">>,
     stmt |-> <<<<2, 3, 4>>, <<>>, <<>>, <<5>>, <<6>>, <<>>>>]

ExampleNoNamespace ==
    [keyword |-> <<"Y_MODULE", "Y_PREFIX", "Y_CONTAINER", "Y_LEAF", "Y_TYPE">>,
     stmt |-> <<<<2, 3>>, <<>>, <<4>>, <<5>>, <<>>>>]

YangInit ==
    /\ \/ \E n \in 1..MaxNodes :
            \E par \in [2..n -> 1..n], kw \in [1..n -> Kinds] :
               /\ \A c \in 2..n : par[c] < c
               /\ DocumentOrder(par, n)
               /\ ys_keyword = kw
               /\ ys_stmt = [p \in 1..n |-> SortedSeq({c \in 2..n : par[c] = p})]
               /\ ys_argument = [p \in 1..n |-> ArgOf(p)]
       \/ \E ex \in {ExampleModule, ExampleNoNamespace} :
               /\ ys_keyword = ex.keyword
               /\ ys_stmt = ex.stmt
               /\ ys_argument = [p \in DOMAIN ex.keyword |-> ArgOf(p)]
    /\ stack = <<Frame(1)>>
    /\ clicon_err = NoErr
    /\ yc_done = FALSE
    /\ yc_retval = -1
    /\ log = <<>>

(***************************************************************************)
(* clixon_proto_client.c : the client side of the RPC protocol             *)
(***************************************************************************)
\* Largest number of calls of facade functions in a run
MaxCalls == 3

\* The client: one clicon handle h and the functions called on it
VARIABLES
    sock_family,    \* what clicon_sock_family(h) returns (option CLICON_SOCK_FAMILY)
    sock_set,       \* options CLICON_SOCK and, for AF_INET, CLICON_SOCK_PORT are set
    session_id,     \* the session id stored in the handle, NoSession if not set
    cl_pc,          \* "idle", or in clicon_rpc_msg for the "hello" or the "request"
    cl_op,          \* the facade function being executed
    cl_arg,         \* its argument: the session to kill of clicon_rpc_kill_session
    inflight,       \* the message handed to the transport and not answered yet
    cl_sent,        \* the messages handed to the transport by the current call
    cl_ret,         \* what the last facade call returned
    calls,          \* the number of facade calls made
    n_hello,        \* the number of hello messages handed to the transport
    n_hello_ok,     \* the number of hello exchanges that gave a session id
    n_req,          \* the number of other messages handed to the transport
    n_recv,         \* the number of times a transport function has returned
    rpc_ret,        \* the last return of clicon_rpc_msg, and whether it sent
    conns,          \* the connections to the backend that are open
    cl_s0,          \* the call whose socket the last call stored in *s0, 0 if none
    cl_bound,       \* the tree of the last reply was bound to yang when it was returned
    cl_enc,         \* what the last clicon_msg_encode gave: "msg", "NULL", or "none"
    cl_xt           \* the tree in *xt after the last call: "none", "valid" or "freed"

\* The backend, as far as the client's requests change it
VARIABLES
    be_next_id,     \* the session id the next hello is answered with
    be_closed       \* the sessions ended by a close-session

client_vars ==
    <<sock_family, sock_set, session_id, cl_pc, cl_op, cl_arg, inflight, cl_sent,
      cl_ret, calls, n_hello, n_hello_ok, n_req, n_recv, rpc_ret, conns, cl_s0,
      cl_bound, cl_enc, cl_xt, be_next_id,
      be_closed>>

\* clicon_session_id_get(h, &id) < 0: no session id is set in the handle
NoSession == -1

\* The facade functions clicon_rpc_<op> with a fixed request
Ops ==
    {"get-config", "edit-config", "copy-config", "delete-config", "lock",
     "unlock", "get", "close-session", "kill-session", "validate", "commit",
     "discard-changes", "create-subscription", "debug"}

\* clicon_rpc_netconf_xml, that sends the request its caller gives it (here
\* a get)
GenericOps == {"netconf-xml"}

\* The element below <rpc> in the request clicon_rpc_<op> encodes
RpcBody(op) ==
    CASE op = "get-config"          -> "get-config"
      [] op = "edit-config"         -> "edit-config"
      [] op = "copy-config"         -> "copy-config"
      [] op = "delete-config"       -> "edit-config"
      [] op = "lock"                -> "lock"
      [] op = "unlock"              -> "unlock"
      [] op = "get"                 -> "get"
      [] op = "close-session"       -> "close-session"
      [] op = "kill-session"        -> "kill-session"
      [] op = "validate"            -> "validate"
      [] op = "commit"              -> "commit"
      [] op = "discard-changes"     -> "discard-changes"
      [] op = "create-subscription" -> "create-subscription"
      [] op = "debug"               -> "debug"
      [] op = "netconf-xml"         -> "get"

\* struct clicon_msg as clicon_msg_encode(id, body) builds it: op_body is the
\* element of the body that names the operation, op_arg what the body holds
\* besides (text)
clicon_msg_encode(id, body, arg) == [op_id |-> id, op_body |-> body, op_arg |-> arg]

NoMsg == [op_id |-> 0, op_body |-> "none", op_arg |-> "none"]

\* The capability of the hello of clicon_hello_req
Capability == "urn:ietf:params:netconf:base:1.0"

\* The sessions clicon_rpc_kill_session is called for
KillTargets == {1, 2}

\* The arguments a facade function is called with
Args(op) == IF op = "kill-session" THEN KillTargets ELSE {0}

\* As RpcMsg, but clicon_rpc_kill_session puts the session to kill in the
\* envelope
RpcMsg_KillInEnvelope(op, id, arg) ==
    IF op = "kill-session"
    THEN clicon_msg_encode(arg, RpcBody(op), ToString(arg))
    ELSE clicon_msg_encode(id, RpcBody(op), "none")

\* The request clicon_rpc_<op> encodes: the session id of the handle in the
\* envelope; the body of kill-session holds the session to kill as text
RpcMsg(op, id, arg) ==
    clicon_msg_encode(id, RpcBody(op),
                      IF op = "kill-session" THEN ToString(arg) ELSE "none")

\* What the transport gives back for a message: "fail" is a failure of
\* clicon_rpc_connect_unix/inet (connect, write or read), the others are the
\* reply data: not well-formed XML ("garbage"), or a tree holding an rpc-reply
\* with <ok/>, with <data>, with <rpc-error> or with none of them ("empty"),
\* or a <hello> with a session-id, with a session-id that is no number, or
\* without session-id
Replies == {"ok", "data", "rpc-error", "empty"}

HelloReplies == {"hello-id", "hello-badid", "hello-noid", "rpc-error"}

\* clicon_rpc_msg from the switch on: r is what the transport gave back,
\* "unset" if an option is missing and "null" if the switch called no
\* transport function (retdata stays NULL)
clicon_rpc_msg(r) ==
    IF r = "unset" THEN [retval |-> -1, xret |-> "null", err |-> "OE_FATAL"]
    ELSE IF r = "fail" THEN [retval |-> -1, xret |-> "null", err |-> "transport"]
    ELSE IF r = "null" THEN [retval |-> 0, xret |-> "null", err |-> "none"]
    ELSE IF r = "garbage" THEN [retval |-> -1, xret |-> "null", err |-> "OE_XML"]
    ELSE [retval |-> 0, xret |-> r, err |-> "none"]

\* The yang binding xml_parse_string2 is called with in clicon_rpc_msg
YB_RPC_MSG == "YB_NONE"

\* clicon_rpc_msg up to the switch: whether a transport function is called
\* with the message
Transmits(family, set) == set /\ family \in {"AF_UNIX", "AF_INET"}

\* What clicon_rpc_msg goes on with
Answers(msg, replies) ==
    IF msg # NoMsg THEN {"fail", "garbage"} \cup replies
    ELSE IF sock_set THEN {"null"}
    ELSE {"unset"}

\* clicon_session_id_get(h, &id)
clicon_session_id_get == IF session_id = NoSession THEN -1 ELSE 0

\* As clicon_hello_req, but a session-id that is no number is taken as id 0
clicon_hello_req_BadId(m, id) ==
    IF m.retval < 0 THEN [retval |-> -1, id |-> NoSession, err |-> m.err]
    ELSE IF m.xret = "rpc-error"
         THEN [retval |-> -1, id |-> NoSession, err |-> "OE_NETCONF"]
    ELSE IF m.xret \notin {"hello-id", "hello-badid"}
         THEN [retval |-> -1, id |-> NoSession, err |-> "OE_XML"]
    ELSE IF m.xret = "hello-badid"
         THEN [retval |-> 0, id |-> 0, err |-> "none"]
    ELSE [retval |-> 0, id |-> id, err |-> "none"]

\* clicon_hello_req after clicon_rpc_msg returned m: the value returned and
\* the id delivered; id is the number in the session-id element
clicon_hello_req(m, id) ==
    IF m.retval < 0 THEN [retval |-> -1, id |-> NoSession, err |-> m.err]
    ELSE IF m.xret = "rpc-error"
         THEN [retval |-> -1, id |-> NoSession, err |-> "OE_NETCONF"]
    ELSE IF m.xret \notin {"hello-id", "hello-badid"}
         THEN [retval |-> -1, id |-> NoSession, err |-> "OE_XML"]
    ELSE IF m.xret = "hello-badid"
         THEN [retval |-> -1, id |-> NoSession, err |-> "OE_XML"]
    ELSE [retval |-> 0, id |-> id, err |-> "none"]

\* The value of a facade function
Ret(op, retval, xt, err, reply) ==
    [op |-> op, retval |-> retval, xt |-> xt, err |-> err, reply |-> reply]

NoRet == Ret("none", 0, "none", "none", "none")

\* As GetResult, but the data of the reply is not looked for
GetResult_NewData(op, xret) ==
    IF xret = "rpc-error" THEN Ret(op, 0, "rpc-reply/rpc-error", "none", xret)
    ELSE Ret(op, 0, "new-data", "none", xret)

\* clicon_rpc_get_config and clicon_rpc_get after clicon_rpc_msg gave xret:
\* first check error, then ok
GetResult(op, xret) ==
    IF xret = "rpc-error" THEN Ret(op, 0, "rpc-reply/rpc-error", "none", xret)
    ELSE IF xret = "data" THEN Ret(op, 0, "data", "none", xret)
    ELSE Ret(op, 0, "new-data", "none", xret)

\* The tree xd that clicon_rpc_get_config and clicon_rpc_get pick in the
\* reply xret, with the parent it has there; a new data element has none
GetTree(xret) ==
    IF xret = "rpc-error" THEN [name |-> "rpc-reply/rpc-error", parent |-> "xret"]
    ELSE IF xret = "data" THEN [name |-> "data", parent |-> "rpc-reply"]
    ELSE [name |-> "new-data", parent |-> "none"]

\* xml_rm(xd): xd is taken from its parent
xml_rm(xd) == [xd EXCEPT !.parent = "none"]

\* xml_free(xret) at done: whatever is still below xret is freed with it
xml_free(xd) == IF xd.parent = "none" THEN "valid" ELSE "freed"

\* As XtDelivered, but without xml_rm
XtDelivered_NoRm(op, xret) ==
    IF op \in {"get-config", "get"} THEN xml_free(GetTree(xret)) ELSE "none"

\* What *xt of the caller is after clicon_rpc_get_config or clicon_rpc_get
\* has returned 0: *xt = xd after xml_rm(xd), then xml_free(xret)
XtDelivered(op, xret) ==
    IF op \in {"get-config", "get"} THEN xml_free(xml_rm(GetTree(xret))) ELSE "none"

\* clicon_rpc_debug after clicon_rpc_msg gave xret
DebugResult(op, xret) ==
    IF xret = "rpc-error" THEN Ret(op, -1, "none", "OE_NETCONF", xret)
    ELSE IF xret # "ok" THEN Ret(op, -1, "none", "OE_XML", xret)
    ELSE Ret(op, 0, "none", "none", xret)

\* As OkResult, but an rpc-error is handed back as by clicon_rpc_get
OkResult_AsGet(op, xret) ==
    IF xret = "rpc-error" THEN Ret(op, 0, "rpc-reply/rpc-error", "none", xret)
    ELSE Ret(op, 0, "none", "none", xret)

\* As OkResult, but the reply is not searched for an rpc-error
OkResult_IgnoreError(op, xret) == Ret(op, 0, "none", "none", xret)

\* The other facade functions after clicon_rpc_msg gave xret:
\* clicon_rpc_generate_error and goto done on an rpc-error, else retval = 0
OkResult(op, xret) ==
    IF xret = "rpc-error" THEN Ret(op, -1, "none", "OE_NETCONF", xret)
    ELSE Ret(op, 0, "none", "none", xret)

\* clicon_rpc_netconf_xml after clicon_rpc_netconf gave xret: the reply is
\* handed back whatever it holds
NetconfXmlResult(op, xret) == Ret(op, 0, "xret", "none", xret)

\* The facade function op after clicon_rpc_msg gave xret
OpResult(op, xret) ==
    IF op \in {"get-config", "get"} THEN GetResult(op, xret)
    ELSE IF op = "debug" THEN DebugResult(op, xret)
    ELSE IF op \in GenericOps THEN NetconfXmlResult(op, xret)
    ELSE OkResult(op, xret)

\* The tree xret of the reply is bound to the yang specification when op
\* returns: by the parser in clicon_rpc_msg, or by xml_spec_populate_rpc_reply
\* that clicon_rpc_netconf_xml calls for an rpc-reply without rpc-error
Bound(op, xret) ==
    \/ YB_RPC_MSG # "YB_NONE"
    \/ op \in GenericOps /\ xret \in {"ok", "data", "empty"}

\* A connection to the backend: the facade call it was opened in and the
\* message sent on it
Conn(call, body) == [call |-> call, body |-> body]

\* As SockPtr, but clicon_rpc_create_subscription passes NULL as the others
SockPtr_Null(op) == FALSE

\* The sock0 argument clicon_rpc_<op> passes to clicon_rpc_msg is not NULL
SockPtr(op) == op = "create-subscription"

\* clicon_rpc_connect_unix/inet(.., sock0) went on with r: whether the socket
\* may be open afterwards. On success it is closed unless sock0 is given;
\* nothing is told about a failure with sock0 given
clicon_rpc_connect(r, sock0) ==
    IF ~sock0 THEN {FALSE}
    ELSE IF r = "fail" THEN BOOLEAN
    ELSE {TRUE}

\* clicon_rpc_msg(h, msg, ..) up to the call of the transport function, in
\* facade call number call with the connections open being open
Transmit(msg, pc, sent, open, call) ==
    /\ cl_pc' = pc
    /\ conns' = IF Transmits(sock_family, sock_set)
                THEN open \cup {Conn(call, msg.op_body)}
                ELSE open
    /\ IF Transmits(sock_family, sock_set)
       THEN /\ inflight' = msg
            /\ cl_sent' = Append(sent, msg)
            /\ n_hello' = IF msg.op_body = "hello" THEN n_hello + 1 ELSE n_hello
            /\ n_req' = IF msg.op_body = "hello" THEN n_req ELSE n_req + 1
       ELSE /\ inflight' = NoMsg
            /\ cl_sent' = sent
            /\ UNCHANGED <<n_hello, n_req>>

\* The facade function returns
Return(ret) ==
    /\ cl_pc' = "idle"
    /\ inflight' = NoMsg
    /\ cl_ret' = ret
    /\ UNCHANGED <<cl_sent, n_hello, n_req>>

\* clicon_rpc_msg returns after going on with r
Received(r) ==
    /\ n_recv' = IF inflight # NoMsg THEN n_recv + 1 ELSE n_recv
    /\ rpc_ret' = [retval |-> clicon_rpc_msg(r).retval, sent |-> inflight # NoMsg,
                   answer |-> r]

\* The hello message of clicon_hello_req
HelloMsg == clicon_msg_encode(0, "hello", Capability)

\* The facade function compares what clicon_msg_encode gave with NULL:
\* clicon_rpc_netconf compares "< 0", which no pointer is
NullChecked(op) == op \notin GenericOps

\* clicon_msg_encode and what follows it in clicon_hello_req (pc "hello") or
\* in the facade function op (pc "request"): with a message (enc) it is
\* passed to clicon_rpc_msg; without, the function does goto done if it
\* compares with NULL, else NULL is passed to clicon_rpc_msg and the
\* transport reads the length of the message through it, which ends the
\* process and with it its connections
Send(enc, op, msg, pc, sent, open, call) ==
    /\ cl_enc' = IF enc THEN "msg" ELSE "NULL"
    /\ IF enc
       THEN Transmit(msg, pc, sent, open, call) /\ cl_ret' = cl_ret
       ELSE /\ inflight' = NoMsg
            /\ cl_sent' = sent
            /\ UNCHANGED <<n_hello, n_req>>
            /\ IF pc = "hello" \/ NullChecked(op)
               THEN /\ cl_pc' = "idle"
                    /\ conns' = open
                    /\ cl_ret' = Ret(op, -1, "none", "encode", "none")
               ELSE /\ cl_pc' = "crashed"
                    /\ conns' = {}
                    /\ cl_ret' = cl_ret

\* As ClientCall, but the request is sent along with the hello, before the
\* reply to the hello is read
ClientCall_Pipelined(op, arg, enc) ==
    /\ cl_pc = "idle"
    /\ calls < MaxCalls
    /\ calls' = calls + 1
    /\ cl_op' = op
    /\ cl_arg' = arg
    /\ IF clicon_session_id_get < 0
       THEN /\ cl_pc' = "hello"
            /\ inflight' = HelloMsg
            /\ cl_sent' = <<HelloMsg, RpcMsg(op, 0, arg)>>
            /\ n_hello' = n_hello + 1
            /\ n_req' = n_req + 1
            /\ conns' = conns \cup {Conn(calls + 1, "hello")}
            /\ cl_enc' = "msg"
            /\ cl_ret' = cl_ret
       ELSE Send(enc, op, RpcMsg(op, session_id, arg), "request", <<>>, conns, calls + 1)
    /\ cl_s0' = 0
    /\ cl_bound' = FALSE
    /\ cl_xt' = "none"
    /\ UNCHANGED <<sock_family, sock_set, session_id, n_hello_ok, n_recv, rpc_ret,
                   be_next_id, be_closed>>

\* As ClientCall, but without session_id_check
ClientCall_NoCheck(op, arg, enc) ==
    /\ cl_pc = "idle"
    /\ calls < MaxCalls
    /\ calls' = calls + 1
    /\ cl_op' = op
    /\ cl_arg' = arg
    /\ Send(enc, op, RpcMsg(op, session_id, arg), "request", <<>>, conns, calls + 1)
    /\ cl_s0' = 0
    /\ cl_bound' = FALSE
    /\ cl_xt' = "none"
    /\ UNCHANGED <<sock_family, sock_set, session_id, n_hello_ok, n_recv, rpc_ret,
                   be_next_id, be_closed>>

\* A facade function is called: session_id_check, then either the hello of
\* clicon_hello_req or the function's own request is passed to clicon_rpc_msg
ClientCall(op, arg, enc) ==
    /\ cl_pc = "idle"
    /\ calls < MaxCalls
    /\ calls' = calls + 1
    /\ cl_op' = op
    /\ cl_arg' = arg
    /\ IF clicon_session_id_get < 0
       THEN Send(enc, op, HelloMsg, "hello", <<>>, conns, calls + 1)
       ELSE Send(enc, op, RpcMsg(op, session_id, arg), "request", <<>>, conns, calls + 1)
    /\ cl_s0' = 0
    /\ cl_bound' = FALSE
    /\ cl_xt' = "none"
    /\ UNCHANGED <<sock_family, sock_set, session_id, n_hello_ok, n_recv, rpc_ret,
                   be_next_id, be_closed>>

\* As HelloReply, but session_id_check does not store the id in the handle
HelloReply_NoSet(r, enc) ==
    /\ cl_pc = "hello"
    /\ r \in Answers(inflight, HelloReplies)
    /\ LET hello == clicon_hello_req(clicon_rpc_msg(r), be_next_id)
       IN  IF hello.retval < 0
           THEN /\ Return(Ret(cl_op, -1, "none", hello.err, r))
                /\ conns' = conns \ {Conn(calls, "hello")}
                /\ UNCHANGED <<n_hello_ok, be_next_id, cl_enc>>
           ELSE /\ n_hello_ok' = n_hello_ok + 1
                /\ be_next_id' = be_next_id + 1
                /\ Send(enc, cl_op, RpcMsg(cl_op, hello.id, cl_arg), "request", cl_sent,
                        conns \ {Conn(calls, "hello")}, calls)
    /\ Received(r)
    /\ UNCHANGED <<sock_family, sock_set, session_id, cl_op, cl_arg, calls, cl_s0,
                   cl_bound, cl_xt, be_closed>>

\* clicon_rpc_msg returns in clicon_hello_req; on success session_id_check
\* stores the id and the function's own request is passed to clicon_rpc_msg
HelloReply(r, enc) ==
    /\ cl_pc = "hello"
    /\ r \in Answers(inflight, HelloReplies)
    /\ LET hello == clicon_hello_req(clicon_rpc_msg(r), be_next_id)
       IN  IF hello.retval < 0
           THEN /\ Return(Ret(cl_op, -1, "none", hello.err, r))
                /\ conns' = conns \ {Conn(calls, "hello")}
                /\ UNCHANGED <<session_id, n_hello_ok, be_next_id, cl_enc>>
           ELSE /\ session_id' = hello.id
                /\ n_hello_ok' = n_hello_ok + 1
                /\ be_next_id' = be_next_id + 1
                /\ Send(enc, cl_op, RpcMsg(cl_op, hello.id, cl_arg), "request", cl_sent,
                        conns \ {Conn(calls, "hello")}, calls)
    /\ Received(r)
    /\ UNCHANGED <<sock_family, sock_set, cl_op, cl_arg, calls, cl_s0, cl_bound,
                   cl_xt, be_closed>>

\* The transport function called for the request of the facade function
\* returns after going on with r: the socket is closed, or stays open and,
\* on success, is stored in *sock0
Closes(r) ==
    IF inflight = NoMsg THEN UNCHANGED <<conns, cl_s0>>
    ELSE \E keep \in clicon_rpc_connect(r, SockPtr(cl_op)) :
            /\ conns' = IF keep THEN conns ELSE conns \ {Conn(calls, inflight.op_body)}
            /\ cl_s0' = IF keep /\ r # "fail" THEN calls ELSE cl_s0

\* As OpReply, but after a failure of the transport the request is sent again
OpReply_Retry(r) ==
    /\ cl_pc = "request"
    /\ r \in Answers(inflight, Replies)
    /\ LET m == clicon_rpc_msg(r)
       IN  IF r = "fail" /\ Len(cl_sent) < 3
           THEN /\ Transmit(inflight, "request", cl_sent, conns, calls)
                /\ UNCHANGED <<cl_ret, cl_s0, cl_bound, cl_xt>>
           ELSE /\ IF m.retval < 0
                   THEN Return(Ret(cl_op, -1, "none", m.err, r))
                   ELSE Return(OpResult(cl_op, m.xret))
                /\ cl_bound' = (m.retval = 0 /\ Bound(cl_op, m.xret))
                /\ cl_xt' = IF m.retval = 0 THEN XtDelivered(cl_op, m.xret) ELSE "none"
                /\ Closes(r)
    /\ be_closed' = be_closed
    /\ Received(r)
    /\ UNCHANGED <<sock_family, sock_set, session_id, cl_op, cl_arg, calls, n_hello_ok,
                   cl_enc, be_next_id>>

\* clicon_rpc_msg returns in the facade function, which returns
OpReply(r) ==
    /\ cl_pc = "request"
    /\ r \in Answers(inflight, Replies)
    /\ LET m == clicon_rpc_msg(r)
       IN  IF m.retval < 0
           THEN Return(Ret(cl_op, -1, "none", m.err, r))
           ELSE Return(OpResult(cl_op, m.xret))
    /\ cl_bound' = (clicon_rpc_msg(r).retval = 0 /\ Bound(cl_op, clicon_rpc_msg(r).xret))
    /\ cl_xt' = IF clicon_rpc_msg(r).retval = 0
                THEN XtDelivered(cl_op, clicon_rpc_msg(r).xret)
                ELSE "none"
    /\ Closes(r)
    /\ be_closed' = IF cl_op = "close-session" /\ r = "ok"
                    THEN be_closed \cup {inflight.op_id}
                    ELSE be_closed
    /\ Received(r)
    /\ UNCHANGED <<sock_family, sock_set, session_id, cl_op, cl_arg, calls, n_hello_ok,
                   cl_enc, be_next_id>>

ClientInit ==
    /\ sock_family \in {"AF_UNIX", "AF_INET", "AF_INET6"}
    /\ sock_set \in BOOLEAN
    /\ session_id = NoSession
    /\ cl_pc = "idle"
    /\ cl_op = "none"
    /\ cl_arg = 0
    /\ inflight = NoMsg
    /\ cl_sent = <<>>
    /\ cl_ret = NoRet
    /\ calls = 0
    /\ n_hello = 0
    /\ n_hello_ok = 0
    /\ n_req = 0
    /\ n_recv = 0
    /\ rpc_ret = [retval |-> 0, sent |-> FALSE, answer |-> "none"]
    /\ conns = {}
    /\ cl_s0 = 0
    /\ cl_bound = FALSE
    /\ cl_enc = "none"
    /\ cl_xt = "none"
    /\ be_next_id = 1
    /\ be_closed = {}

\* Everything clicon_rpc_msg may go on with
AllAnswers == {"fail", "garbage", "null", "unset"} \cup HelloReplies \cup Replies

(***************************************************************************)
(* The backend as the specification describes it (sessions, locks and the  *)
(* datastores), serving the facade calls of several clients                *)
(***************************************************************************)
\* Largest number of facade calls the clients make together
MaxReqs == 3

\* The client processes, each with a handle of its own
Clients == {"a", "b"}

\* The session ids the backend gives
Ids == 1 .. Cardinality(Clients)

\* The datastores that are locked by name
Datastores == {"running", "candidate"}

\* The content of a datastore: a value for each leaf
Leaves == {"x", "y"}

Values == {0, 1}

Content == [Leaves -> Values]

NoData == [l \in Leaves |-> -1]

VARIABLES
    b_live,         \* backend: the ids of the active sessions
    b_next,         \* backend: the id the next hello is given
    b_locks,        \* backend: locks_held of each session
    b_running,      \* backend: the content of the running datastore
    b_cand,         \* backend: the content of the candidate of each session
    b_last,         \* the request the backend served last, and its reply
    c_sid,          \* per client: the session id stored in the handle
    c_pc,           \* per client: "idle", or waiting for the "hello" or the "request"
    c_req,          \* per client: the facade call being executed, if any
    c_ret,          \* per client: what the last facade call returned
    n_calls         \* the number of facade calls made

backend_vars ==
    <<b_live, b_next, b_locks, b_running, b_cand, b_last, c_sid, c_pc, c_req,
      c_ret, n_calls>>

\* The state of the backend as one value
Backend ==
    [live |-> b_live, next |-> b_next, locks |-> b_locks, running |-> b_running,
     cand |-> b_cand]

\* The sessions that hold the lock of datastore db
Holders(st, db) == {s \in st.live : db \in st.locks[s]}

\* Replies of the backend
ReplyOk == [kind |-> "ok", id |-> 0, msg |-> {}, data |-> NoData]

ReplyData(content) == [kind |-> "data", id |-> 0, msg |-> {}, data |-> content]

ReplyError(msg) == [kind |-> "rpc-error", id |-> 0, msg |-> msg, data |-> NoData]

ReplyHello(id) == [kind |-> "hello-id", id |-> id, msg |-> {}, data |-> NoData]

Served(st, reply) == [st |-> st, reply |-> reply]

\* hello: a new session with the next id, its candidate a copy of running
BHello(st) ==
    Served([st EXCEPT !.live = @ \cup {st.next},
                      !.next = @ + 1,
                      !.locks[st.next] = {},
                      !.cand[st.next] = st.running],
           ReplyHello(st.next))

\* As BLock, but the lock is given whoever holds it
BLock_NoCheck(st, s, db) ==
    Served([st EXCEPT !.locks[s] = @ \cup {db}], ReplyOk)

\* lock: fails if the datastore has a different holder
BLock(st, s, db) ==
    IF Holders(st, db) \subseteq {s}
    THEN Served([st EXCEPT !.locks[s] = @ \cup {db}], ReplyOk)
    ELSE Served(st, ReplyError({"lock", "already locked", db}))

\* unlock: by the holder only
BUnlock(st, s, db) ==
    IF db \in st.locks[s]
    THEN Served([st EXCEPT !.locks[s] = @ \ {db}], ReplyOk)
    ELSE Served(st, ReplyError({"lock", "not locked", db}))

\* edit-config: the patch sets a leaf of the candidate of the session
BEditConfig(st, s, leaf, val) ==
    Served([st EXCEPT !.cand[s][leaf] = val], ReplyOk)

\* As BCommit, but the leaves are promoted one by one and a failure stops it
BCommit_Partial(st, s, valid) ==
    IF valid
    THEN Served([st EXCEPT !.running = st.cand[s]], ReplyOk)
    ELSE Served([st EXCEPT !.running["x"] = st.cand[s]["x"]],
                ReplyError({"commit", "validation failed"}))

\* commit: promotes the candidate of the session to running, or fails (the
\* candidate is not valid) and leaves both
BCommit(st, s, valid) ==
    IF valid
    THEN Served([st EXCEPT !.running = st.cand[s]], ReplyOk)
    ELSE Served(st, ReplyError({"commit", "validation failed"}))

\* As BDiscardChanges, but an error if there is nothing to discard
BDiscardChanges_ErrorIfSame(st, s) ==
    IF st.cand[s] = st.running
    THEN Served(st, ReplyError({"discard-changes", "no changes"}))
    ELSE Served([st EXCEPT !.cand[s] = st.running], ReplyOk)

\* discard-changes: the candidate of the session mirrors running again
BDiscardChanges(st, s) ==
    Served([st EXCEPT !.cand[s] = st.running], ReplyOk)

\* get-config of running
BGetConfig(st, s) == Served(st, ReplyData(st.running))

\* The session ends: it is no longer active and its locks are released
EndSession(st, s) == [st EXCEPT !.live = @ \ {s}, !.locks[s] = {}]

\* close-session
BCloseSession(st, s) == Served(EndSession(st, s), ReplyOk)

\* kill-session of another, active session
BKillSession(st, s, target) ==
    IF target \in st.live /\ target # s
    THEN Served(EndSession(st, target), ReplyOk)
    ELSE Served(st, ReplyError({"kill-session", "no such session"}))

\* A facade call of the clients: the function and its arguments
Req(op, db, leaf, val, sid) ==
    [op |-> op, db |-> db, leaf |-> leaf, val |-> val, sid |-> sid]

NoReq == Req("none", "none", "none", 0, 0)

Reqs ==
    {Req(op, db, "none", 0, 0) : op \in {"lock", "unlock"}, db \in Datastores}
        \cup {Req("edit-config", "candidate", leaf, 1, 0) : leaf \in Leaves}
        \cup {Req(op, "none", "none", 0, 0) :
                  op \in {"commit", "discard-changes", "close-session"}}
        \cup {Req("get-config", "running", "none", 0, 0)}
        \cup {Req("kill-session", "none", "none", 0, sid) : sid \in Ids}

\* The backend serves the request req that has session id s in its envelope; a
\* request of a session that is not active is answered with an error
BServe(st, s, req, valid) ==
    IF s \notin st.live THEN Served(st, ReplyError({"session", "no such session"}))
    ELSE CASE req.op = "lock" -> BLock(st, s, req.db)
           [] req.op = "unlock" -> BUnlock(st, s, req.db)
           [] req.op = "edit-config" -> BEditConfig(st, s, req.leaf, req.val)
           [] req.op = "commit" -> BCommit(st, s, valid)
           [] req.op = "discard-changes" -> BDiscardChanges(st, s)
           [] req.op = "get-config" -> BGetConfig(st, s)
           [] req.op = "close-session" -> BCloseSession(st, s)
           [] req.op = "kill-session" -> BKillSession(st, s, req.sid)

\* What a facade call returns to the client: the value of the facade function
\* for the reply, with the error it reports and the data it hands back
SessionRet(req, reply) ==
    LET res == OpResult(req.op, clicon_rpc_msg(reply.kind).xret)
    IN  [op |-> res.op, db |-> req.db, retval |-> res.retval, xt |-> res.xt,
         err |-> res.err,
         msg |-> IF reply.kind = "rpc-error" THEN reply.msg ELSE {},
         data |-> IF res.xt = "data" THEN reply.data ELSE NoData]

NoSessionRet ==
    [op |-> "none", db |-> "none", retval |-> 0, xt |-> "none", err |-> "none",
     msg |-> {}, data |-> NoData]

\* The backend goes to state st, having served op of session s with reply
\* kind; rep tells whether it served the same for the same session just before
SetBackend(st, s, op, kind) ==
    /\ b_live' = st.live
    /\ b_next' = st.next
    /\ b_locks' = st.locks
    /\ b_running' = st.running
    /\ b_cand' = st.cand
    /\ b_last' = [sid |-> s, op |-> op, kind |-> kind,
                  rep |-> IF b_last.sid = s /\ b_last.op = op
                          THEN 2 ELSE 1]

\* As SessionCall, but a hello is sent by every call
SessionCall_AlwaysHello(c, req) ==
    /\ c_pc[c] = "idle"
    /\ n_calls < MaxReqs
    /\ b_next \in Ids
    /\ n_calls' = n_calls + 1
    /\ c_req' = [c_req EXCEPT ![c] = req]
    /\ c_pc' = [c_pc EXCEPT ![c] = "hello"]
    /\ UNCHANGED <<b_live, b_next, b_locks, b_running, b_cand, b_last, c_sid, c_ret>>

\* Client c calls a facade function: session_id_check, then the hello or the
\* request is sent
SessionCall(c, req) ==
    /\ c_pc[c] = "idle"
    /\ n_calls < MaxReqs
    /\ n_calls' = n_calls + 1
    /\ c_req' = [c_req EXCEPT ![c] = req]
    /\ c_pc' = [c_pc EXCEPT ![c] = IF c_sid[c] = NoSession THEN "hello" ELSE "request"]
    /\ UNCHANGED <<b_live, b_next, b_locks, b_running, b_cand, b_last, c_sid, c_ret>>

\* The backend serves the hello of client c, session_id_check stores the id
\* and the request is sent
SessionHello(c) ==
    /\ c_pc[c] = "hello"
    /\ LET r == BHello(Backend)
           hello == clicon_hello_req(clicon_rpc_msg(r.reply.kind), r.reply.id)
       IN  /\ SetBackend(r.st, r.reply.id, "hello", r.reply.kind)
           /\ c_sid' = [c_sid EXCEPT ![c] = hello.id]
           /\ c_pc' = [c_pc EXCEPT ![c] = "request"]
    /\ UNCHANGED <<c_req, c_ret, n_calls>>

\* The backend serves the request of client c and the facade function returns
SessionReply(c, valid) ==
    /\ c_pc[c] = "request"
    /\ LET r == BServe(Backend, c_sid[c], c_req[c], valid)
       IN  /\ SetBackend(r.st, c_sid[c], c_req[c].op, r.reply.kind)
           /\ c_ret' = [c_ret EXCEPT ![c] = SessionRet(c_req[c], r.reply)]
           /\ c_pc' = [c_pc EXCEPT ![c] = "idle"]
           /\ c_req' = [c_req EXCEPT ![c] = NoReq]
    /\ UNCHANGED <<c_sid, n_calls>>

BackendInit ==
    /\ b_live = {}
    /\ b_next = 1
    /\ b_locks = [s \in Ids |-> {}]
    /\ b_running = [l \in Leaves |-> 0]
    /\ b_cand = [s \in Ids |-> [l \in Leaves |-> 0]]
    /\ b_last = [sid |-> 0, op |-> "none", kind |-> "none", rep |-> 0]
    /\ c_sid = [c \in Clients |-> NoSession]
    /\ c_pc = [c \in Clients |-> "idle"]
    /\ c_req = [c \in Clients |-> NoReq]
    /\ c_ret = [c \in Clients |-> NoSessionRet]
    /\ n_calls = 0

(***************************************************************************)
(* The plugins of the netconf application (netconf_plugin.c)               *)
(***************************************************************************)
VARIABLES
    plugins,        \* the handles of the loaded plugins, in load order
    deps,           \* the registered callbacks, from the head of the queue
    pl_ret,         \* the last call of a function of netconf_plugin.c
    pl_started,     \* the plugins whose plugin_start ran in the last start
    pl_called       \* the entries of deps whose callback ran in the last dispatch

plugin_vars == <<plugins, deps, pl_ret, pl_started, pl_called>>

\* Most plugins loaded and most callbacks registered at a time
MaxPlugins == 3
MaxDeps == 2

\* A loaded plugin, by what dlsym(handle, PLUGIN_START) gives: no function,
\* one that returns 0 or one that returns -1
PluginKinds == {"nostart", "start-ok", "start-fail"}

\* A file of the plugin directory: a plugin, or one that dlopen cannot load
FileKinds == PluginKinds \cup {"bad"}

\* The tags callbacks are registered for, and the names of the XML nodes
Tags == {"t1", "t2"}
XmlNames == Tags \cup {"t3"}

\* What a registered callback returns when called: 0 or -1
CbKinds == {"cb-ok", "cb-fail"}

SeqsUpTo(S, n) == UNION {[1..k -> S] : k \in 0..n}

PlRet(fn, retval) == [fn |-> fn, retval |-> retval, name |-> "none"]

\* The loop of netconf_plugin_load over the files of the directory
RECURSIVE LoadAll(_, _)
LoadAll(ps, files) ==
    IF files = <<>> THEN [plugins |-> ps, retval |-> 0]
    ELSE IF Head(files) = "bad" THEN [plugins |-> ps, retval |-> -1]
    ELSE LoadAll(Append(ps, Head(files)), Tail(files))

netconf_plugin_load(files) ==
    /\ Len(plugins) + Len(files) <= MaxPlugins
    /\ plugins' = LoadAll(plugins, files).plugins
    /\ pl_ret' = PlRet("load", LoadAll(plugins, files).retval)
    /\ pl_started' = <<>>
    /\ pl_called' = <<>>
    /\ UNCHANGED deps

\* The loop of netconf_plugin_start from plugins[i] on
RECURSIVE StartFrom(_, _)
StartFrom(i, started) ==
    IF i > Len(plugins) THEN [started |-> started, retval |-> 0]
    ELSE IF plugins[i] = "nostart" THEN [started |-> started, retval |-> 0]
    ELSE IF plugins[i] = "start-fail"
         THEN [started |-> Append(started, i), retval |-> -1]
    ELSE StartFrom(i + 1, Append(started, i))

netconf_plugin_start ==
    /\ pl_started' = StartFrom(1, <<>>).started
    /\ pl_ret' = PlRet("start", StartFrom(1, <<>>).retval)
    /\ pl_called' = <<>>
    /\ UNCHANGED <<plugins, deps>>

\* INSQ(nr, deps): nr is put in the queue and becomes its head
INSQ(nr, q) == <<nr>> \o q

\* netconf_register_callback(h, cb, arg, tag); mem tells if malloc succeeds
netconf_register_callback(cb, tag, mem) ==
    /\ Len(deps) < MaxDeps
    /\ IF mem
       THEN /\ deps' = INSQ([nr_callback |-> cb, nr_tag |-> tag], deps)
            /\ pl_ret' = PlRet("register", 0)
       ELSE /\ deps' = deps
            /\ pl_ret' = PlRet("register", -1)
    /\ pl_started' = <<>>
    /\ pl_called' = <<>>
    /\ UNCHANGED plugins

\* netconf_plugin_unload: the queue is emptied with DELQ, the plugins are
\* unloaded
netconf_plugin_unload ==
    /\ deps' = <<>>
    /\ plugins' = <<>>
    /\ pl_ret' = PlRet("unload", 0)
    /\ pl_started' = <<>>
    /\ pl_called' = <<>>

\* As Dispatch, but the loop goes on after a callback that succeeded
RECURSIVE Dispatch_All(_, _, _)
Dispatch_All(i, name, called) ==
    IF i > Len(deps) THEN [called |-> called, retval |-> IF called = <<>> THEN 0 ELSE 1]
    ELSE IF deps[i].nr_tag = name
         THEN IF deps[i].nr_callback = "cb-fail"
              THEN [called |-> Append(called, i), retval |-> -1]
              ELSE Dispatch_All(i + 1, name, Append(called, i))
    ELSE Dispatch_All(i + 1, name, called)

\* The loop of netconf_plugin_callbacks from entry i of deps on, for a node
\* called name
RECURSIVE Dispatch(_, _, _)
Dispatch(i, name, called) ==
    IF i > Len(deps) THEN [called |-> called, retval |-> 0]
    ELSE IF deps[i].nr_tag = name
         THEN [called |-> Append(called, i),
               retval |-> IF deps[i].nr_callback = "cb-fail" THEN -1 ELSE 1]
    ELSE Dispatch(i + 1, name, called)

netconf_plugin_callbacks(name) ==
    /\ pl_called' = Dispatch(1, name, <<>>).called
    /\ pl_ret' = [fn |-> "callbacks", retval |-> Dispatch(1, name, <<>>).retval,
                  name |-> name]
    /\ pl_started' = <<>>
    /\ UNCHANGED <<plugins, deps>>

\* Nothing is loaded and nothing registered
PluginInit ==
    /\ plugins = <<>>
    /\ deps = <<>>
    /\ pl_ret = PlRet("none", 0)
    /\ pl_started = <<>>
    /\ pl_called = <<>>

(***************************************************************************)
(* The option registry of a handle (clixon_options.c)                      *)
(***************************************************************************)
VARIABLES
    copt,           \* the options of the handle: name -> value, or NoValue
    opt_ret         \* the last call of an option function

option_vars == <<copt, opt_ret>>

\* The option names and the values of the model; a value is a string
OptNames == {"X", "Y"}
NoValue == "NULL"
OptValues == {"true", "false", "1", "0"}

OptRet(fn, name, val, retval) ==
    [fn |-> fn, name |-> name, val |-> val, retval |-> retval]

\* snprintf(s, sizeof(s)-1, "%u", val) for the values 0 and 1
FormatU(val) == IF val = 0 THEN "0" ELSE "1"

\* clicon_option_str(h, name): NULL if hash_lookup finds nothing
clicon_option_str(name) ==
    /\ opt_ret' = OptRet("str", name, copt[name], 0)
    /\ UNCHANGED copt

\* clicon_option_str_set(h, name, val); mem tells if hash_add succeeds
clicon_option_str_set(name, val, mem) ==
    /\ copt' = IF mem THEN [copt EXCEPT ![name] = val] ELSE copt
    /\ opt_ret' = OptRet("str_set", name, val, IF mem THEN 0 ELSE -1)

\* What clicon_option_bool returns for the stored string s: 1 for "true",
\* else 0
BoolOf(s) ==
    IF s = NoValue THEN 0
    ELSE IF s = "true" THEN 1
    ELSE 0

\* clicon_option_bool(h, name)
clicon_option_bool(name) ==
    /\ opt_ret' = OptRet("bool", name, copt[name], BoolOf(copt[name]))
    /\ UNCHANGED copt

\* clicon_option_bool_set(h, name, val); mem tells if hash_add succeeds
clicon_option_bool_set(name, val, mem) ==
    /\ copt' = IF mem THEN [copt EXCEPT ![name] = FormatU(val)] ELSE copt
    /\ opt_ret' = OptRet("bool_set", name, val, IF mem THEN 0 ELSE -1)

\* clicon_option_del(h, name): hash_del gives -1 if the name is not there
clicon_option_del(name) ==
    /\ copt' = [copt EXCEPT ![name] = NoValue]
    /\ opt_ret' = OptRet("del", name, copt[name], IF copt[name] = NoValue THEN -1 ELSE 0)

\* No option is set
OptionInit ==
    /\ copt = [n \in OptNames |-> NoValue]
    /\ opt_ret = OptRet("none", "none", NoValue, 0)

(***************************************************************************)
(* The restconf FastCGI process: signals and the accept loop               *)
(* (restconf_main_fcgi.c)                                                  *)
(***************************************************************************)
VARIABLES
    fc_pc,          \* where main is: "startup", "opened", "accept", "process",
                    \* "done" (main has returned) or "exited" (exit was called)
    fc_i,           \* the static counter i of restconf_sig_term
    clixon_exit,    \* the flag of clixon_exit_set/clixon_exit_get
    MYSOCK,         \* the global _MYSOCK: 0, or SockFd once the socket is open
    fc_sock,        \* the FastCGI socket: "none", "open" or "closed"
    fc_stdin,       \* file descriptor 0: "open" or "closed"
    fc_path,        \* the REQUEST_URI of the request being processed
    fc_nreq,        \* requests accepted so far
    fc_late,        \* requests accepted after the first signal
    fc_retval       \* what main returned

fcgi_vars == <<fc_pc, fc_i, clixon_exit, MYSOCK, fc_sock, fc_stdin, fc_path,
               fc_nreq, fc_late, fc_retval>>

\* Most requests the web server sends
MaxRequests == 3

\* The kinds of REQUEST_URI main tells apart; "NULL" is no URI
Paths == {"NULL", "well-known", "restconf", "stream", "other"}

\* The file descriptor FCGX_OpenSocket returns
SockFd == 3

\* main returns retval through done
MainDone(retval) ==
    /\ fc_pc' = "done"
    /\ fc_retval' = retval

\* close(fd) in restconf_sig_term
close(fd) ==
    IF fd = SockFd
    THEN /\ fc_sock' = "closed"
         /\ UNCHANGED fc_stdin
    ELSE /\ fc_stdin' = "closed"
         /\ UNCHANGED fc_sock

\* restconf_sig_term: SIGTERM or SIGINT is delivered while main runs
restconf_sig_term ==
    /\ fc_pc \notin {"done", "exited"}
    /\ fc_i' = fc_i + 1
    /\ IF fc_i = 0
       THEN /\ clixon_exit' = 1
            /\ close(MYSOCK)
            /\ UNCHANGED fc_pc
       ELSE /\ fc_pc' = "exited"
            /\ UNCHANGED <<clixon_exit, fc_sock, fc_stdin>>
    /\ UNCHANGED <<MYSOCK, fc_path, fc_nreq, fc_late, fc_retval>>

\* main from set_signal to _MYSOCK = sock: r is "ok", "dump" (the
\* configuration is dumped and main returns 0) or "fail" (a step fails)
MainOpen(r) ==
    /\ fc_pc = "startup"
    /\ IF r = "ok"
       THEN /\ fc_pc' = "opened"
            /\ fc_sock' = "open"
            /\ MYSOCK' = SockFd
            /\ UNCHANGED fc_retval
       ELSE /\ MainDone(IF r = "dump" THEN 0 ELSE -1)
            /\ UNCHANGED <<fc_sock, MYSOCK>>
    /\ UNCHANGED <<fc_i, clixon_exit, fc_stdin, fc_path, fc_nreq, fc_late>>

\* main from _MYSOCK = sock to the loop: chown, chmod, drop of privileges
\* and FCGX_InitRequest; ok tells if all succeed
MainInitRequest(ok) ==
    /\ fc_pc = "opened"
    /\ IF ok
       THEN fc_pc' = "accept" /\ UNCHANGED fc_retval
       ELSE MainDone(-1)
    /\ UNCHANGED <<fc_i, clixon_exit, MYSOCK, fc_sock, fc_stdin, fc_path,
                   fc_nreq, fc_late>>

\* FCGX_Accept_r(req) at the head of the loop: on a closed socket it fails;
\* on an open one a request with REQUEST_URI path arrives, or it fails
MainAccept(path, ok) ==
    /\ fc_pc = "accept"
    /\ fc_sock = "open" /\ ok => fc_nreq < MaxRequests
    /\ IF fc_sock = "open" /\ ok
       THEN /\ fc_pc' = "process"
            /\ fc_path' = path
            /\ fc_nreq' = fc_nreq + 1
            /\ fc_late' = IF fc_i > 0 THEN fc_late + 1 ELSE fc_late
            /\ UNCHANGED fc_retval
       ELSE /\ MainDone(-1)
            /\ UNCHANGED <<fc_path, fc_nreq, fc_late>>
    /\ UNCHANGED <<fc_i, clixon_exit, MYSOCK, fc_sock, fc_stdin>>

\* The body of the loop after FCGX_Accept_r: the request is handled (ok
\* tells if no call of the body does goto done; finish is what api_stream
\* leaves in finish), then the request is finished, the loop is left, or a
\* new request is initiated
MainProcess(ok, finish) ==
    /\ fc_pc = "process"
    /\ IF ~ok
       THEN MainDone(-1)
       ELSE IF fc_path = "stream" /\ finish = 0 /\ clixon_exit = 1
            THEN MainDone(0)
       ELSE fc_pc' = "accept" /\ UNCHANGED fc_retval
    /\ fc_path' = "NULL"
    /\ UNCHANGED <<fc_i, clixon_exit, MYSOCK, fc_sock, fc_stdin, fc_nreq, fc_late>>

\* The signal handlers are installed, the socket is not open yet
FcgiInit ==
    /\ fc_pc = "startup"
    /\ fc_i = 0
    /\ clixon_exit = 0
    /\ MYSOCK = 0
    /\ fc_sock = "none"
    /\ fc_stdin = "open"
    /\ fc_path = "NULL"
    /\ fc_nreq = 0
    /\ fc_late = 0
    /\ fc_retval = 0

(***************************************************************************)
(* Specifications                                                          *)
(***************************************************************************)
\* The variables of the applications: plugins, options, restconf process
app_vars == <<plugin_vars, option_vars, fcgi_vars>>

vars == <<yang_vars, client_vars, backend_vars, find_vars, app_vars>>

\* No validation is running: the tree is a single statement, validated
YangIdle ==
    /\ ys_keyword = <<Y_UNKNOWN>>
    /\ ys_stmt = <<<<>>>>
    /\ ys_argument = <<ArgOf(1)>>
    /\ stack = <<>>
    /\ clicon_err = NoErr
    /\ yc_done = TRUE
    /\ yc_retval = 0
    /\ log = <<>>

\* No lookup is being made
FindIdle ==
    /\ f_pk = Y_UNKNOWN
    /\ f_ck = Y_UNKNOWN
    /\ f_ycplist = 0
    /\ f_yc = 0
    /\ f_run = {}
    /\ f_pc = "done"

\* No client is calling: a new handle for a backend at a Unix socket
ClientIdle == ClientInit /\ sock_family = "AF_UNIX" /\ sock_set

\* No application runs
AppIdle == PluginInit /\ OptionInit /\ FcgiInit

\* The validator: yang_cardinality run on a statement tree
Init == YangInit /\ ClientIdle /\ BackendInit /\ FindIdle /\ AppIdle

Next ==
    \/ CardFind /\ UNCHANGED <<client_vars, backend_vars, find_vars, app_vars>>
    \/ CardCheck1 /\ UNCHANGED <<client_vars, backend_vars, find_vars, app_vars>>
    \/ CardCheck2 /\ UNCHANGED <<client_vars, backend_vars, find_vars, app_vars>>
    \/ CardCheck3 /\ UNCHANGED <<client_vars, backend_vars, find_vars, app_vars>>
    \/ CardRecurse /\ UNCHANGED <<client_vars, backend_vars, find_vars, app_vars>>
    \/ CardRecurseEnd /\ UNCHANGED <<client_vars, backend_vars, find_vars, app_vars>>
    \/ CardOk /\ UNCHANGED <<client_vars, backend_vars, find_vars, app_vars>>
    \/ CardReturn /\ UNCHANGED <<client_vars, backend_vars, find_vars, app_vars>>

Spec == Init /\ [][Next]_vars

\* The client: facade functions called on one handle
InitClient == ClientInit /\ YangIdle /\ BackendInit /\ FindIdle /\ AppIdle

NextClient ==
    \/ \E op \in Ops \cup GenericOps : \E arg \in Args(op) : \E enc \in BOOLEAN :
           ClientCall(op, arg, enc) /\ UNCHANGED <<yang_vars, backend_vars, find_vars, app_vars>>
    \/ \E r \in AllAnswers : \E enc \in BOOLEAN :
           HelloReply(r, enc) /\ UNCHANGED <<yang_vars, backend_vars, find_vars, app_vars>>
    \/ \E r \in AllAnswers : OpReply(r) /\ UNCHANGED <<yang_vars, backend_vars, find_vars, app_vars>>

SpecClient == InitClient /\ [][NextClient]_vars

\* The backend and the sessions of the clients
InitBackend == BackendInit /\ YangIdle /\ ClientIdle /\ FindIdle /\ AppIdle

NextBackend ==
    \/ \E c \in Clients, req \in Reqs :
           SessionCall(c, req) /\ UNCHANGED <<yang_vars, client_vars, find_vars, app_vars>>
    \/ \E c \in Clients : SessionHello(c) /\ UNCHANGED <<yang_vars, client_vars, find_vars, app_vars>>
    \/ \E c \in Clients, valid \in BOOLEAN :
           SessionReply(c, valid) /\ UNCHANGED <<yang_vars, client_vars, find_vars, app_vars>>

SpecBackend == InitBackend /\ [][NextBackend]_vars

\* The lookups in the cardinality table
InitFind == FindInit /\ YangIdle /\ ClientIdle /\ BackendInit /\ AppIdle

NextFind ==
    \/ FindParent /\ UNCHANGED <<yang_vars, client_vars, backend_vars, app_vars>>
    \/ FindChild /\ UNCHANGED <<yang_vars, client_vars, backend_vars, app_vars>>
    \/ WalkRun /\ UNCHANGED <<yang_vars, client_vars, backend_vars, app_vars>>

SpecFind == InitFind /\ [][NextFind]_vars

\* The plugins of the netconf application alone
LibIdle == YangIdle /\ ClientIdle /\ BackendInit /\ FindIdle

lib_vars == <<yang_vars, client_vars, backend_vars, find_vars>>

InitPlugin == PluginInit /\ OptionInit /\ FcgiInit /\ LibIdle

NextPlugin ==
    \/ \E files \in SeqsUpTo(FileKinds, MaxPlugins) :
          netconf_plugin_load(files) /\ UNCHANGED <<lib_vars, option_vars, fcgi_vars>>
    \/ netconf_plugin_start /\ UNCHANGED <<lib_vars, option_vars, fcgi_vars>>
    \/ \E cb \in CbKinds : \E tag \in Tags : \E mem \in BOOLEAN :
          netconf_register_callback(cb, tag, mem)
              /\ UNCHANGED <<lib_vars, option_vars, fcgi_vars>>
    \/ netconf_plugin_unload /\ UNCHANGED <<lib_vars, option_vars, fcgi_vars>>
    \/ \E name \in XmlNames :
          netconf_plugin_callbacks(name) /\ UNCHANGED <<lib_vars, option_vars, fcgi_vars>>

SpecPlugin == InitPlugin /\ [][NextPlugin]_vars

\* The option registry alone
InitOption == OptionInit /\ PluginInit /\ FcgiInit /\ LibIdle

NextOption ==
    \/ \E name \in OptNames :
          clicon_option_str(name) /\ UNCHANGED <<lib_vars, plugin_vars, fcgi_vars>>
    \/ \E name \in OptNames : \E val \in OptValues : \E mem \in BOOLEAN :
          clicon_option_str_set(name, val, mem)
              /\ UNCHANGED <<lib_vars, plugin_vars, fcgi_vars>>
    \/ \E name \in OptNames :
          clicon_option_bool(name) /\ UNCHANGED <<lib_vars, plugin_vars, fcgi_vars>>
    \/ \E name \in OptNames : \E val \in {0, 1} : \E mem \in BOOLEAN :
          clicon_option_bool_set(name, val, mem)
              /\ UNCHANGED <<lib_vars, plugin_vars, fcgi_vars>>
    \/ \E name \in OptNames :
          clicon_option_del(name) /\ UNCHANGED <<lib_vars, plugin_vars, fcgi_vars>>

SpecOption == InitOption /\ [][NextOption]_vars

\* The restconf FastCGI process alone
InitFcgi == FcgiInit /\ PluginInit /\ OptionInit /\ LibIdle

NextFcgi ==
    \/ restconf_sig_term /\ UNCHANGED <<lib_vars, plugin_vars, option_vars>>
    \/ \E r \in {"ok", "dump", "fail"} :
          MainOpen(r) /\ UNCHANGED <<lib_vars, plugin_vars, option_vars>>
    \/ \E ok \in BOOLEAN :
          MainInitRequest(ok) /\ UNCHANGED <<lib_vars, plugin_vars, option_vars>>
    \/ \E path \in Paths : \E ok \in BOOLEAN :
          MainAccept(path, ok) /\ UNCHANGED <<lib_vars, plugin_vars, option_vars>>
    \/ \E ok \in BOOLEAN : \E finish \in {0, 1} :
          MainProcess(ok, finish) /\ UNCHANGED <<lib_vars, plugin_vars, option_vars>>

SpecFcgi == InitFcgi /\ [][NextFcgi]_vars

(***************************************************************************)
(* Vocabulary of the properties: the table and the tree read directly,     *)
(* without the scans of the validator                                      *)
(***************************************************************************)
\* The rules of the table (the sentinel is no rule)
Rules == 1..(Len(yclist) - 1)

\* The rules of every keyword
RulesByParent == [K1 \in Keywords |-> {r \in Rules : yclist[r].yc_parent = K1}]

RulesOf(K1) == RulesByParent[K1]

HasRules(K1) == RulesOf(K1) # {}

Permitted(K1, K2) == \E r \in RulesOf(K1) : yclist[r].yc_child = K2

ChildrenOf(n) == {ys_stmt[n][k] : k \in 1..Len(ys_stmt[n])}

CountOf(n, K2) == Cardinality({c \in ChildrenOf(n) : ys_keyword[c] = K2})

\* ys_parent: the statement n is a child of (the root is its own)
ys_parent(n) == IF n = 1 THEN 1 ELSE CHOOSE p \in Nodes : n \in ChildrenOf(p)

RECURSIVE ProperAncestors(_)
ProperAncestors(n) ==
    IF n = 1 THEN {} ELSE {ys_parent(n)} \cup ProperAncestors(ys_parent(n))

\* The children of n that are not permitted under n
BadChildren(n) ==
    {c \in ChildrenOf(n) :
        /\ ys_keyword[c] # Y_UNKNOWN
        /\ ~Permitted(ys_keyword[n], ys_keyword[c])}

\* The mandatory rules of n's keyword that n has no child for
UnmetRules(n) ==
    {r \in RulesOf(ys_keyword[n]) :
        yclist[r].yc_min >= 1 /\ CountOf(n, yclist[r].yc_child) = 0}

\* The bounded rules of n's keyword that n has too many children for
ExceededRules(n) ==
    {r \in RulesOf(ys_keyword[n]) :
        yclist[r].yc_max < NMAX /\ CountOf(n, yclist[r].yc_child) > yclist[r].yc_max}

\* Statement n breaks a rule of the table
Violates(n) ==
    BadChildren(n) # {} \/ UnmetRules(n) # {} \/ ExceededRules(n) # {}

\* What the log tells
Did(step, n) == \E k \in DOMAIN log : log[k].step = step /\ log[k].yt = n

Passed(step, n) == \E k \in DOMAIN log : log[k] = Event(step, n, TRUE)

Failed(step, n) == \E k \in DOMAIN log : log[k] = Event(step, n, FALSE)

\* yang_cardinality was entered for n
Visited(n) == Did("find", n)

\* One of the three checks found an error at n
Rejected(n) == Failed("check1", n) \/ Failed("check2", n) \/ Failed("check3", n)

FMT_NOTCHILD == "is child of, but should not be"

FMT_MISSING == "is missing but is mandatory child of"

FMT_TOOMANY == "has children of type, but only allowed"

\* The run failed with the error raised at n
FailedAt(n) ==
    /\ Rejected(n)
    /\ "yt" \in DOMAIN clicon_err /\ clicon_err.yt = n
    /\ yc_done => yc_retval = -1

(***************************************************************************)
(* C1..C6: yang_cardinality                                                *)
(***************************************************************************)
\* C1: the first check is made exactly at the visited statements whose keyword
\* has rules; it passes iff every child is permitted by a rule (K1,K2) of the
\* table or is an extension statement (Y_UNKNOWN); otherwise the run fails
\* with the "is child of, but should not be" error naming a child that is not
\* permitted and its parent.  An extension statement is never the child named.
C1_ChildPermitted ==
    /\ \A n \in Nodes :
          /\ Visited(n) => (Passed("find", n) <=> HasRules(ys_keyword[n]))
          /\ Did("check1", n) => HasRules(ys_keyword[n])
          /\ Did("check1", n) => (Passed("check1", n) <=> BadChildren(n) = {})
          /\ Failed("check1", n) =>
                /\ FailedAt(n)
                /\ clicon_err.fmt = FMT_NOTCHILD
                /\ clicon_err.ys \in BadChildren(n)
                /\ clicon_err.child_key = ys_keyword[clicon_err.ys]
                /\ clicon_err.parent_key = ys_keyword[n]
          /\ (yc_done /\ Passed("find", n)) => Did("check1", n)
    /\ clicon_err.fmt = FMT_NOTCHILD =>
          /\ clicon_err.child_key # Y_UNKNOWN
          /\ Failed("check1", clicon_err.yt)

\* C1 witness: a run that failed on a child that is not permitted, beside an
\* extension statement under the same parent that was let through
C1_Witness ==
    /\ yc_done /\ yc_retval = -1
    /\ clicon_err.fmt = FMT_NOTCHILD
    /\ \E c \in ChildrenOf(clicon_err.yt) :
          ys_keyword[c] = Y_UNKNOWN /\ c < clicon_err.ys

\* C2: a visited statement that lacks a child for a mandatory rule (min >= 1)
\* of its keyword is rejected: the run fails with the error raised at that
\* statement, and the error is the "is missing but is mandatory" error for a
\* missing child once the first check has passed.  That error names a rule
\* (K1,K2,min>=1) and is only raised at a K1 statement without K2 child.
C2_MandatoryChild ==
    /\ \A n \in Nodes :
          /\ Did("check2", n) => (Passed("check2", n) <=> UnmetRules(n) = {})
          /\ Failed("check2", n) =>
                /\ FailedAt(n)
                /\ clicon_err.fmt = FMT_MISSING
                /\ clicon_err.parent_key = ys_keyword[n]
                /\ \E r \in UnmetRules(n) : clicon_err.child_key = yclist[r].yc_child
          /\ (yc_done /\ Passed("find", n) /\ UnmetRules(n) # {}) =>
                /\ FailedAt(n)
                /\ Passed("check1", n) => Failed("check2", n)
    /\ clicon_err.fmt = FMT_MISSING =>
          /\ Failed("check2", clicon_err.yt)
          /\ CountOf(clicon_err.yt, clicon_err.child_key) = 0
          /\ \E r \in RulesOf(clicon_err.parent_key) :
                yclist[r].yc_child = clicon_err.child_key /\ yclist[r].yc_min >= 1

\* C2 witness: a statement with two mandatory rules that has a child for the
\* one and none for the other, rejected for the missing one
C2_Witness ==
    /\ yc_done /\ yc_retval = -1
    /\ clicon_err.fmt = FMT_MISSING
    /\ \E r \in RulesOf(clicon_err.parent_key) :
          /\ yclist[r].yc_min >= 1
          /\ CountOf(clicon_err.yt, yclist[r].yc_child) >= 1

\* C3: the third check passes at a statement iff no bounded rule (max < NMAX)
\* of its keyword is exceeded, so exactly max children pass; a visited
\* statement with more than max children is rejected, and once the first two
\* checks have passed the error is the "has .. children, but only .. allowed"
\* error, which carries the number of children counted and the rule's max.
C3_MaxChildren ==
    /\ \A n \in Nodes :
          /\ Did("check3", n) => (Passed("check3", n) <=> ExceededRules(n) = {})
          /\ Failed("check3", n) =>
                /\ FailedAt(n)
                /\ clicon_err.fmt = FMT_TOOMANY
                /\ clicon_err.parent_key = ys_keyword[n]
                /\ \E r \in ExceededRules(n) :
                      /\ clicon_err.child_key = yclist[r].yc_child
                      /\ clicon_err.max = yclist[r].yc_max
                      /\ clicon_err.nr = CountOf(n, yclist[r].yc_child)
          /\ (yc_done /\ Passed("find", n) /\ ExceededRules(n) # {}) =>
                /\ FailedAt(n)
                /\ Passed("check2", n) => Failed("check3", n)
    /\ clicon_err.fmt = FMT_TOOMANY => Failed("check3", clicon_err.yt)

\* C3 witness: a statement rejected for max+1 children of a kind
C3_Witness ==
    /\ yc_done /\ yc_retval = -1
    /\ clicon_err.fmt = FMT_TOOMANY
    /\ clicon_err.nr = clicon_err.max + 1

\* C4 as stated: a statement whose keyword has no rules is not rejected and not
\* checked, but its children are still visited, so that a violation below it
\* makes the run fail.
C4_Original ==
    \A n \in Nodes :
       (Visited(n) /\ ~HasRules(ys_keyword[n])) =>
          /\ ~Rejected(n)
          /\ ~Did("check1", n) /\ ~Did("check2", n) /\ ~Did("check3", n)
          /\ yc_done =>
                /\ (\A c \in ChildrenOf(n) : Visited(c)) \/ clicon_err # NoErr
                /\ (\E c \in ChildrenOf(n) : Violates(c)) => yc_retval = -1

\* C4 amended: a visited statement whose keyword has no rules is not rejected,
\* none of the three checks is made on it, and the call returns 0 at once
\* (goto ok) without visiting any of its children.
C4_NoRulesSkipped ==
    \A n \in Nodes :
       (Visited(n) /\ ~HasRules(ys_keyword[n])) =>
          /\ ~Rejected(n)
          /\ ~Did("check1", n) /\ ~Did("check2", n) /\ ~Did("check3", n)
          /\ \A c \in ChildrenOf(n) : ~Visited(c)
          /\ Did("return", n) => Passed("return", n)
          /\ (yc_done /\ n = 1) => (yc_retval = 0 /\ clicon_err = NoErr)

\* C4 witness: the run on a root without rules returned 0 although a child of
\* the root breaks a rule
C4_Witness ==
    /\ yc_done /\ yc_retval = 0
    /\ ~HasRules(ys_keyword[1])
    /\ \E c \in ChildrenOf(1) : Violates(c)

\* C5 as stated: every child of a statement that was found to violate a rule is
\* still visited by the run.
C5_Original ==
    yc_done => \A n \in Nodes : Rejected(n) => \A c \in ChildrenOf(n) : Visited(c)

\* C5 amended: the children of a statement are visited only after its three
\* checks have passed: no child of a statement that was found to violate a rule
\* is visited; the children of a statement that passed are visited in order
\* until one of the calls fails.
C5_RecurseOnlyIfSatisfied ==
    \A n \in Nodes :
       /\ Rejected(n) => \A c \in ChildrenOf(n) : ~Visited(c)
       /\ (Passed("check3", n) /\ Did("return", n)) =>
             \A k \in 1..Len(ys_stmt[n]) :
                \/ Visited(ys_stmt[n][k])
                \/ \E j \in 1..(k - 1) : Failed("return", ys_stmt[n][j])

\* C5 witness: a finished run in which a statement with children was rejected
\* by the second or third check
C5_Witness ==
    /\ yc_done
    /\ \E n \in Nodes :
          /\ Failed("check2", n) \/ Failed("check3", n)
          /\ ChildrenOf(n) # {}

\* C6: pre-order.  When the call for a child of n starts, the three checks of
\* n have been made (and passed); so the error of a failed run is raised at a
\* statement none of whose ancestors breaks a rule: of a statement and a
\* descendant that both break a rule, the one closer to the root is reported.
C6_PreOrder ==
    /\ \A k \in DOMAIN log :
          (log[k].step = "find" /\ log[k].yt # 1) =>
             LET n == ys_parent(log[k].yt)
             IN  \E k1, k2, k3 \in 1..(k - 1) :
                    /\ k1 < k2 /\ k2 < k3
                    /\ log[k1] = Event("check1", n, TRUE)
                    /\ log[k2] = Event("check2", n, TRUE)
                    /\ log[k3] = Event("check3", n, TRUE)
    /\ clicon_err # NoErr =>
          \A a \in ProperAncestors(clicon_err.yt) : ~Violates(a)

\* C6 witness: the root and one of its descendants both break a rule, and the
\* error reported is the root's
C6_Witness ==
    /\ yc_done /\ yc_retval = -1
    /\ clicon_err.yt = 1
    /\ \E d \in Nodes \ {1} : Violates(d)

(***************************************************************************)
(* Vocabulary of the properties of the client                              *)
(***************************************************************************)
\* The message is a hello
IsHello(msg) == msg.op_body = "hello"

\* The request of a facade function is with the transport
RequestOut == cl_pc = "request" /\ inflight # NoMsg

\* The last facade call has returned after its own request was answered by
\* the reply
Answered(reply) ==
    /\ cl_pc = "idle"
    /\ cl_ret.reply = reply
    /\ cl_sent # <<>>
    /\ ~IsHello(cl_sent[Len(cl_sent)])

\* The facade functions whose result hands a tree to the caller
TreeOps == {"get-config", "get"}

\* C7 as stated: no hello before the first facade call, and exactly one hello
\* exchange precedes the request of the first substantive operation.
C7_Original ==
    /\ calls = 0 => n_hello = 0
    /\ n_req >= 1 => n_hello = 1

\* C7 as amended: a new client sends nothing before its first facade call;
\* the first request other than a hello is sent after the one hello exchange
\* that has given an id, the id the request carries: by the call that made
\* the exchange, directly after it, or, if that call could not encode its
\* request, by a later call. The hello exchanges before it all failed, each
\* in a call of its own that sent no request.
C7_LazyHello ==
    /\ calls = 0 => n_hello = 0 /\ n_req = 0 /\ inflight = NoMsg
    /\ n_req >= 1 => n_hello_ok = 1
    /\ n_req = 0 /\ cl_pc # "hello" =>
           /\ n_hello <= calls
           /\ n_hello_ok = 0 \/ cl_enc = "NULL"
    /\ RequestOut /\ n_req = 1 =>
           /\ cl_sent \in {<<HelloMsg, RpcMsg(cl_op, session_id, cl_arg)>>,
                           <<RpcMsg(cl_op, session_id, cl_arg)>>}
           /\ Len(cl_sent) = 1 => n_hello < calls
           /\ session_id # NoSession
           /\ n_hello <= calls

\* The first request is with the transport, after an earlier call's hello failed
C7_Witness ==
    /\ RequestOut
    /\ n_req = 1
    /\ n_hello = 2
    /\ cl_ret.retval = -1

\* C8: once a hello exchange has given a session id, the handle holds an id,
\* the id never changes and no further hello is handed to the transport,
\* whatever the calls in between return.
C8_IdCached ==
    [][/\ n_hello_ok >= 1 => session_id # NoSession
       /\ session_id # NoSession =>
              /\ session_id' = session_id
              /\ n_hello' = n_hello
              /\ ~IsHello(inflight')]_vars

\* With an id cached, a call after one that failed sends its request at once
C8_Witness ==
    /\ RequestOut
    /\ cl_sent = <<RpcMsg(cl_op, session_id, cl_arg)>>
    /\ cl_ret.retval = -1
    /\ cl_ret.reply \in {"fail", "rpc-error"}

\* C9 as stated: a request sent after a successful close-session, or with no
\* session set up, follows a hello of the same call that gave a new session
\* id; so no request carries the id of a closed session or no id.
C9_Original ==
    RequestOut =>
        /\ inflight.op_id # NoSession
        /\ inflight.op_id \notin be_closed

\* C10 as stated: a reply with an rpc-error makes every facade function return
\* without failure, with the error; only a failure of the transport makes it
\* fail.
C10_Original ==
    \A reply \in Replies :
        Answered(reply) /\ cl_ret.op # "debug" =>
            /\ cl_ret.retval = 0
            /\ reply = "rpc-error" /\ cl_ret.op \in TreeOps =>
                   cl_ret.xt = "rpc-reply/rpc-error"

\* C10 as amended: of the facade functions with a fixed request only get and
\* get-config return a reply with an rpc-error as a result without failure,
\* the tree handed to the caller being the reply with the error; every other
\* one reports the error and fails with -1, as it does on a failure of the
\* transport, handing nothing back. (clicon_rpc_netconf_xml hands every reply
\* back as it is.)
C10_ErrorReply ==
    /\ Answered("rpc-error") =>
           IF cl_ret.op \in TreeOps
           THEN cl_ret.retval = 0 /\ cl_ret.xt = "rpc-reply/rpc-error"
           ELSE IF cl_ret.op \in GenericOps
           THEN cl_ret.retval = 0 /\ cl_ret.xt = "xret"
           ELSE cl_ret.retval = -1 /\ cl_ret.err = "OE_NETCONF" /\ cl_ret.xt = "none"
    /\ cl_pc = "idle" /\ cl_ret.reply \in {"fail", "unset"} =>
           cl_ret.retval = -1 /\ cl_ret.xt = "none"

\* A lock has had a reply with an rpc-error and has failed
C10_Witness ==
    /\ Answered("rpc-error")
    /\ cl_ret.op = "lock"
    /\ cl_ret.retval = -1

\* The hellos and the other messages the current call has handed to the
\* transport
SentHellos == {i \in DOMAIN cl_sent : IsHello(cl_sent[i])}

SentRequests == {i \in DOMAIN cl_sent : ~IsHello(cl_sent[i])}

\* C11: a failure of the transport makes the facade call return -1 with
\* nothing handed back, and nothing is sent again: a call hands its hello and
\* its request to the transport at most once each, and after a failed hello
\* no request.
C11_TransportFatal ==
    /\ Cardinality(SentHellos) <= 1
    /\ Cardinality(SentRequests) <= 1
    /\ cl_pc = "idle" /\ cl_enc = "msg" /\ rpc_ret.answer = "fail" =>
           /\ cl_ret.retval = -1
           /\ cl_ret.xt = "none"
           /\ cl_ret.err = "transport"
           /\ inflight = NoMsg
           /\ IsHello(cl_sent[Len(cl_sent)]) => cl_sent = <<HelloMsg>>

\* A call has failed on its request, which the transport failed to deliver
C11_Witness ==
    /\ cl_pc = "idle"
    /\ rpc_ret.answer = "fail"
    /\ cl_ret.retval = -1
    /\ Cardinality(SentRequests) = 1

\* C12 as stated: for every socket family, a return of clicon_rpc_msg with
\* success has handed the request to the transport and got the reply of the
\* backend.
C12_Original ==
    rpc_ret.answer # "none" /\ rpc_ret.retval = 0 =>
        /\ rpc_ret.sent
        /\ rpc_ret.answer \in Replies \cup HelloReplies

\* C19: a hello is sent with session id 0 in the envelope and holds the
\* capability of the client; the id in the handle is the one the reply to the
\* hello gave, and every other request has it in its envelope; a kill-session
\* has the id of its own session in the envelope and the session to kill in
\* its body.
C19_Envelope ==
    /\ \A i \in SentHellos :
           cl_sent[i].op_id = 0 /\ cl_sent[i].op_arg = Capability
    /\ session_id # NoSession => session_id = be_next_id - 1
    /\ \A i \in SentRequests :
           /\ session_id # NoSession
           /\ cl_sent[i].op_id = session_id
           /\ cl_sent[i].op_body = RpcBody(cl_op)
           /\ cl_sent[i].op_arg =
                  IF cl_op = "kill-session" THEN ToString(cl_arg) ELSE "none"

\* A kill-session for another session is with the transport
C19_Witness ==
    /\ RequestOut
    /\ inflight.op_body = "kill-session"
    /\ cl_arg # session_id
    /\ cl_sent = <<HelloMsg, inflight>>

\* C20: at most one message is with the transport at any time and none when
\* no facade call is running; the request of a call that sent a hello is sent
\* after the reply to the hello was read.
C20_OneOutstanding ==
    /\ n_hello + n_req - n_recv = IF inflight # NoMsg THEN 1 ELSE 0
    /\ cl_pc = "idle" => inflight = NoMsg
    /\ RequestOut /\ Len(cl_sent) = 2 =>
           /\ IsHello(cl_sent[1])
           /\ rpc_ret.answer = "hello-id"
           /\ inflight = cl_sent[2]

\* The request of a call is with the transport, the hello of the call answered
C20_Witness ==
    /\ RequestOut
    /\ Len(cl_sent) = 2
    /\ n_recv = 1
    /\ n_hello + n_req = 2

(***************************************************************************)
(* Vocabulary of the properties of the sessions                            *)
(***************************************************************************)
LockReq(db) == Req("lock", db, "none", 0, 0)

UnlockReq(db) == Req("unlock", db, "none", 0, 0)

EditReq(leaf) == Req("edit-config", "candidate", leaf, 1, 0)

CommitReq == Req("commit", "none", "none", 0, 0)

DiscardReq == Req("discard-changes", "none", "none", 0, 0)

GetConfigReq == Req("get-config", "running", "none", 0, 0)

\* The step is the backend serving the request of client c
Serving(c) == c_pc[c] = "request" /\ c_pc'[c] = "idle"

\* The last call of client c was op and returned retval
Returned(c, op, retval) ==
    c_pc[c] = "idle" /\ c_ret[c].op = op /\ c_ret[c].retval = retval

\* C13: every datastore has at most one holder of its lock, whatever requests
\* the sessions have made; two lock requests of different sessions for a
\* datastore nobody holds, served one after the other, give the lock to the
\* first and an "already locked" error to the second.
C13_OneHolder ==
    /\ \A db \in Datastores : Cardinality(Holders(Backend, db)) <= 1
    /\ \A db \in Datastores : \A s \in b_live, t \in b_live :
           s # t /\ Holders(Backend, db) = {} =>
               LET first == BServe(Backend, s, LockReq(db), TRUE)
                   second == BServe(first.st, t, LockReq(db), TRUE)
               IN  /\ first.reply.kind = "ok"
                   /\ second.reply.kind = "rpc-error"
                   /\ "already locked" \in second.reply.msg
                   /\ Holders(second.st, db) = {s}

\* Each client has made one call, a lock of running: one has it, the other
\* an error
C13_Witness ==
    /\ n_calls = 2
    /\ Returned("a", "lock", 0) /\ c_ret["a"].db = "running"
    /\ Returned("b", "lock", -1) /\ c_ret["b"].db = "running"
    /\ "already locked" \in c_ret["b"].msg
    /\ Holders(Backend, "running") = {c_sid["a"]}

\* C14: while a session holds the lock of a datastore, the lock call of a
\* client with another session fails with an error that names the lock and
\* the datastore, and the holder stays; once the holder has unlocked the
\* datastore, that lock call succeeds.
C14_LockDenied ==
    \A db \in Datastores : \A s \in b_live, t \in b_live :
        s # t /\ Holders(Backend, db) = {s} =>
            LET denied == BServe(Backend, t, LockReq(db), TRUE)
                ret == SessionRet(LockReq(db), denied.reply)
                unlocked == BServe(Backend, s, UnlockReq(db), TRUE)
                given == BServe(unlocked.st, t, LockReq(db), TRUE)
            IN  /\ ret.retval = -1
                /\ ret.err = "OE_NETCONF"
                /\ {"lock", db} \subseteq ret.msg
                /\ denied.st = Backend
                /\ unlocked.reply.kind = "ok"
                /\ SessionRet(LockReq(db), given.reply).retval = 0
                /\ Holders(given.st, db) = {t}

\* Client a has locked and unlocked running, and client b holds it
C14_Witness ==
    /\ n_calls = 3
    /\ Returned("a", "unlock", 0) /\ c_ret["a"].db = "running"
    /\ Returned("b", "lock", 0) /\ c_ret["b"].db = "running"
    /\ Holders(Backend, "running") = {c_sid["b"]}

\* C15: a commit either succeeds and running is the candidate of the session
\* as it was, or fails and running is as before; the candidates are as before
\* in both cases; running changes in no other step, and a get-config hands
\* back running as it is.
C15_CommitAtomic ==
    [][/\ \A c \in Clients : Serving(c) /\ c_req[c].op = "commit" =>
              /\ b_cand' = b_cand
              /\ \/ c_ret'[c].retval = 0 /\ b_running' = b_cand[c_sid[c]]
                 \/ c_ret'[c].retval = -1 /\ b_running' = b_running
       /\ b_running' # b_running =>
              \E c \in Clients : Serving(c) /\ c_req[c].op = "commit"
       /\ \A c \in Clients :
              Serving(c) /\ c_req[c].op = "get-config" /\ c_sid[c] \in b_live =>
                  c_ret'[c].data = b_running]_vars

\* A commit has failed and the candidate of the session differs from running
C15_Witness ==
    \E c \in Clients :
        /\ Returned(c, "commit", -1)
        /\ c_sid[c] \in b_live
        /\ b_cand[c_sid[c]] # b_running

\* C16: after an edit-config and a commit of one session, a get-config of
\* running of another session hands back the edited value; after an
\* edit-config alone, or an edit-config and a discard-changes, it hands back
\* what it did before the edit.
C16_EditCommitVisible ==
    \A s \in b_live, t \in b_live : \A leaf \in Leaves :
        s # t =>
            LET Get(st) == SessionRet(GetConfigReq, BServe(st, t, GetConfigReq, TRUE).reply)
                edited == BServe(Backend, s, EditReq(leaf), TRUE).st
                committed == BServe(edited, s, CommitReq, TRUE).st
                discarded == BServe(edited, s, DiscardReq, TRUE).st
            IN  /\ Get(committed).retval = 0
                /\ Get(committed).xt = "data"
                /\ Get(committed).data[leaf] = EditReq(leaf).val
                /\ Get(Backend).data = b_running
                /\ Get(edited) = Get(Backend)
                /\ Get(discarded) = Get(Backend)

\* One client has committed an edit and the other has got the edited value
C16_Witness ==
    /\ Returned("a", "commit", 0)
    /\ Returned("b", "get-config", 0)
    /\ b_last.op = "get-config"
    /\ c_ret["b"].data # [l \in Leaves |-> 0]
    /\ c_ret["b"].data = b_cand[c_sid["a"]]

\* C17: a second discard-changes of a session leaves the backend as the first
\* left it, with the candidate of the session equal to running, and is
\* answered without error, so that the facade function returns 0.
C17_DiscardIdempotent ==
    \A s \in b_live :
        LET once == BServe(Backend, s, DiscardReq, TRUE)
            twice == BServe(once.st, s, DiscardReq, TRUE)
        IN  /\ once.st.cand[s] = once.st.running
            /\ once.st.running = b_running
            /\ twice.st = once.st
            /\ twice.reply.kind = "ok"
            /\ SessionRet(DiscardReq, twice.reply).retval = 0

\* A session has discarded its changes twice in a row, in the first three calls
C17_Witness ==
    \E c \in Clients :
        /\ Returned(c, "discard-changes", 0)
        /\ b_last = [sid |-> c_sid[c], op |-> "discard-changes", kind |-> "ok", rep |-> 2]
        /\ n_calls = 3

\* C18: a client keeps the session id it has and sends no further hello; the
\* call it makes when its session has been ended is answered with an error,
\* which the facade function reports (get-config in the tree it hands back,
\* the others by failing), and no session is made for it.
C18_KilledSession ==
    [][\A c \in Clients :
           /\ c_sid[c] # NoSession => c_sid'[c] = c_sid[c] /\ c_pc'[c] # "hello"
           /\ Serving(c) /\ c_sid[c] \notin b_live =>
                  /\ "session" \in c_ret'[c].msg
                  /\ IF c_req[c].op = "get-config"
                     THEN c_ret'[c].retval = 0 /\ c_ret'[c].xt = "rpc-reply/rpc-error"
                     ELSE c_ret'[c].retval = -1 /\ c_ret'[c].err = "OE_NETCONF"
                  /\ b_next' = b_next
                  /\ b_live' = b_live]_vars

\* Client b has killed the session of client a, whose next call has failed
C18_Witness ==
    /\ Returned("b", "kill-session", 0)
    /\ Returned("a", "lock", -1)
    /\ "session" \in c_ret["a"].msg
    /\ c_sid["a"] \notin b_live
    /\ c_sid["a"] # NoSession

(***************************************************************************)
(* Properties of the facade: connections, request bodies and replies       *)
(***************************************************************************)
\* The facade call in progress, or made last, is number calls
ThisCall(c) == c.call = calls

\* C21: clicon_rpc_create_subscription keeps the connection of its request
\* open after the reply and hands the socket to the caller; every other
\* facade function has no connection open once it has returned, and a
\* connection that is open during a call is the one of the message in flight.
C21_SubscriptionSocket ==
    /\ \A c \in conns :
          \/ c.body = "create-subscription"
          \/ cl_pc # "idle" /\ ThisCall(c) /\ c.body = inflight.op_body
    /\ cl_pc = "idle" /\ cl_ret.op = "create-subscription" /\ cl_ret.retval = 0
           => Conn(calls, "create-subscription") \in conns /\ cl_s0 = calls
    /\ cl_pc = "idle" /\ cl_ret.op # "create-subscription" => cl_s0 = 0

\* A subscription was created after a lock: the socket of the subscription
\* is the only one open
C21_Witness ==
    /\ cl_pc = "idle"
    /\ cl_ret.op = "create-subscription"
    /\ cl_ret.retval = 0
    /\ calls = 2
    /\ n_req = 2
    /\ conns = {Conn(2, "create-subscription")}
    /\ cl_s0 = 2

\* The operation vocabulary of the protocol
Vocabulary ==
    {"hello", "get", "get-config", "edit-config", "copy-config", "delete-config",
     "lock", "unlock", "commit", "discard-changes", "validate", "close-session",
     "kill-session", "create-subscription"}

\* C22 as stated: the request a facade function sends holds the operation
\* element of the vocabulary that has the name of the function:
\* clicon_rpc_delete_config sends delete-config, and so on for each.
C22_Original ==
    \A i \in SentRequests :
        cl_op \in Ops => cl_sent[i].op_body \in Vocabulary /\ cl_sent[i].op_body = cl_op

\* The last facade call handed a tree of the reply back to its caller
HandedBack == cl_pc = "idle" /\ cl_ret.retval = 0 /\ cl_ret.xt \notin {"none", "new-data"}

\* C23 as stated: every reply the facade hands back to its caller was bound to
\* the yang specification before, for every function and for ok, data and
\* error replies.
C23_Original == HandedBack => cl_bound

(***************************************************************************)
(* C24..C27: yang_cardinality on a module, its errors and its frame        *)
(***************************************************************************)
\* The tree under validation is the one of example ex
IsExample(ex) == ys_keyword = ex.keyword /\ ys_stmt = ex.stmt

\* C24: the module with namespace, prefix and a container holding a leaf of
\* type string passes yang_cardinality without any error; the same module
\* without the namespace statement is rejected with the error that a
\* mandatory child is missing, which names namespace as the child and module
\* as the parent.
C24_ExampleModule ==
    /\ yc_done /\ IsExample(ExampleModule) =>
           /\ yc_retval = 0
           /\ clicon_err = NoErr
           /\ \A n \in Nodes : Visited(n) /\ ~Rejected(n)
    /\ yc_done /\ IsExample(ExampleNoNamespace) =>
           /\ yc_retval = -1
           /\ clicon_err.fmt = FMT_MISSING
           /\ clicon_err.child_key = "Y_NAMESPACE"
           /\ clicon_err.parent_key = "Y_MODULE"
           /\ clicon_err.yt = 1

\* The module without namespace has been rejected
C24_Witness ==
    /\ yc_done
    /\ IsExample(ExampleNoNamespace)
    /\ yc_retval = -1
    /\ clicon_err.fmt = FMT_MISSING

\* C25: yang_cardinality fails closed: once a check has found a violation at
\* a visited statement nothing more is checked, every call on the way up
\* returns -1, and the call for the root returns -1 with the error set,
\* however deep the statement is.
C25_FailClosed ==
    /\ \A k \in DOMAIN log :
          log[k].step \in {"check1", "check2", "check3"} /\ ~log[k].ok =>
              \A j \in (k + 1)..Len(log) : log[j].step = "return" /\ ~log[j].ok
    /\ yc_done /\ (\E n \in Nodes : Rejected(n)) =>
           yc_retval = -1 /\ clicon_err # NoErr
    /\ yc_done /\ yc_retval = 0 => clicon_err = NoErr

\* The call for the root has returned -1 for a violation found below a child
\* of the root
C25_Witness ==
    /\ yc_done
    /\ yc_retval = -1
    /\ \E n \in Nodes : Rejected(n) /\ n # 1 /\ ys_parent(n) # 1

\* C26 as stated: the error for a missing mandatory child names the keyword
\* of the parent, the argument of the parent and the keyword of the child.
C26_Original ==
    clicon_err.fmt = FMT_MISSING =>
        /\ clicon_err.parent_key = yang_keyword_get(clicon_err.yt)
        /\ "parent_arg" \in DOMAIN clicon_err
        /\ clicon_err.parent_arg = yang_argument_get(clicon_err.yt)
        /\ Permitted(clicon_err.parent_key, clicon_err.child_key)

\* C26 as amended: the error for a missing mandatory child names the module
\* name the call was given, the keyword of the parent and the keyword of the
\* mandatory child the parent has none of; the argument of the parent is not
\* in it.
C26_MissingError ==
    clicon_err.fmt = FMT_MISSING =>
        /\ clicon_err.modname = modname
        /\ clicon_err.parent_key = yang_keyword_get(clicon_err.yt)
        /\ \E r \in UnmetRules(clicon_err.yt) : clicon_err.child_key = yclist[r].yc_child
        /\ "parent_arg" \notin DOMAIN clicon_err

\* A statement below the root has been found to miss a mandatory child
C26_Witness ==
    /\ yc_done
    /\ clicon_err.fmt = FMT_MISSING
    /\ clicon_err.yt # 1
    /\ Failed("check2", clicon_err.yt)

RuleMap ==
    [P \in Keywords |->
        [C \in Keywords |->
            LET rs == {r \in RulesOf(P) : yclist[r].yc_child = C}
            IN  IF rs = {} THEN 0 ELSE Min(rs)]]

\* C28: for a parent keyword that has rules and any child keyword, the lookup
\* from the start of the parent's run with the premature quit finds a rule
\* iff the table has a rule of the pair anywhere, and finds the first one: it
\* gives what the scan of the whole table without quit gives, and what a map
\* keyed by the pair gives.
C28_LookupAgrees ==
    f_pc \in {"walk", "done"} /\ f_ycplist # 0 =>
        /\ f_yc # 0 <=> Permitted(f_pk, f_ck)
        /\ f_yc = ycard_find(f_pk, f_ck, 1, FALSE)
        /\ f_yc = RuleMap[f_pk][f_ck]

\* The rule (module, prefix) was found: it is not the first of its run
C28_Witness ==
    /\ f_pc = "done"
    /\ f_pk = "Y_MODULE"
    /\ f_ck = "Y_PREFIX"
    /\ f_yc > f_ycplist
    /\ yclist[f_yc] = YC("Y_MODULE", "Y_PREFIX", 1, 1)

\* C29: ycard_find with no child and without the premature quit gives the
\* first entry of the table that has the parent, which is where the run of
\* the parent starts, and NULL iff no entry has the parent.
C29_RunStart ==
    f_pc # "find" =>
        /\ f_ycplist = 0 <=> ~HasRules(f_pk)
        /\ f_ycplist # 0 =>
              /\ f_ycplist = Min(RulesOf(f_pk))
              /\ yclist[f_ycplist].yc_parent = f_pk
              /\ f_ycplist > 1 => yclist[f_ycplist - 1].yc_parent # f_pk

\* The run of module was looked up: it starts in the middle of the table
C29_Witness ==
    /\ f_pc = "child"
    /\ f_pk = "Y_MODULE"
    /\ f_ycplist > 1
    /\ yclist[f_ycplist].yc_parent = "Y_MODULE"

\* No parent comes back in the table after an entry with another parent
Contiguous ==
    \A i \in Rules : \A j \in Rules :
        i < j /\ yclist[i].yc_parent = yclist[j].yc_parent =>
            yclist[j - 1].yc_parent = yclist[j].yc_parent

\* C30: the rules of a parent are one run of the table, and the loop that
\* walks from the start of the run while the parent is the same visits all
\* the rules of the parent.
C30_ContiguousRuns ==
    /\ Contiguous
    /\ f_pc = "done" /\ f_ycplist # 0 => f_run = RulesOf(f_pk)

\* The run of module was walked: it has several rules
C30_Witness ==
    /\ f_pc = "done"
    /\ f_pk = "Y_MODULE"
    /\ Cardinality(f_run) > 20

(***************************************************************************)
(* C31..C36: the replies and the failures the facade meets                 *)
(***************************************************************************)
\* The facade functions whose reply of success is the ok marker
OkOps ==
    {"lock", "unlock", "edit-config", "copy-config", "delete-config", "validate",
     "commit", "discard-changes", "close-session", "kill-session"}

\* C31 as stated: a facade function whose reply of success is the ok marker
\* returns 0 only if the reply held the ok marker; a reply that is empty or
\* holds neither ok nor rpc-error is not reported as success.
C31_Original ==
    cl_pc = "idle" /\ cl_ret.op \in OkOps /\ cl_ret.retval = 0 =>
        cl_ret.reply = "ok"

\* The answers that make clicon_hello_req fail
HelloFailures == {"fail", "garbage", "rpc-error", "hello-noid", "hello-badid"}

\* The last facade call has returned from its hello
ReturnedFromHello ==
    /\ cl_pc = "idle"
    /\ cl_enc = "msg"
    /\ cl_sent # <<>>
    /\ IsHello(cl_sent[Len(cl_sent)])

\* C32: if the hello fails (the transport fails, the reply is an rpc-error,
\* has no session-id or one that is no number) the facade call returns -1
\* without having sent its own request and no session id is stored; the
\* request is sent only after a hello that gave an id, and as long as no
\* hello has succeeded what a call sends is a hello again.
C32_HelloFails ==
    /\ ReturnedFromHello =>
           /\ rpc_ret.answer \in HelloFailures
           /\ cl_ret.retval = -1
           /\ SentRequests = {}
           /\ session_id = NoSession
    /\ cl_pc = "request" /\ Len(cl_sent) = 2 => rpc_ret.answer = "hello-id"
    /\ n_hello_ok = 0 =>
           /\ session_id = NoSession
           /\ n_req = 0
           /\ inflight # NoMsg => IsHello(inflight)

\* A second call has sent a hello after the hello of the first had failed
\* with a session-id that is no number
C32_Witness ==
    /\ cl_pc = "hello"
    /\ calls = 2
    /\ n_hello = 2
    /\ n_hello_ok = 0
    /\ rpc_ret.answer = "hello-badid"
    /\ cl_ret.retval = -1

\* C33 as stated: in every facade function, clicon_rpc_netconf included, if
\* clicon_msg_encode gives no message the call returns -1 and nothing is
\* passed to clicon_rpc_msg.
C33_Original ==
    cl_enc = "NULL" =>
        /\ cl_pc = "idle"
        /\ cl_ret.retval = -1
        /\ inflight = NoMsg

(***************************************************************************)
(* C34: the order of the checks of yang_cardinality                        *)
(***************************************************************************)
\* The position in the log of the step made for statement n, 0 if not made
StepAt(step, n) ==
    IF Did(step, n)
    THEN CHOOSE k \in DOMAIN log : log[k].step = step /\ log[k].yt = n
    ELSE 0

\* Step a for n was made, and before step b for n if that was made too
Before(a, b, n) ==
    Did(b, n) => Did(a, n) /\ StepAt(a, n) < StepAt(b, n)

\* The first child of n, in child order, that is not permitted under n
FirstBadChild(n) ==
    ys_stmt[n][CHOOSE k \in 1..Len(ys_stmt[n]) :
                   /\ ys_stmt[n][k] \in BadChildren(n)
                   /\ \A j \in 1..(k - 1) : ys_stmt[n][j] \notin BadChildren(n)]

\* The first rule of S in table order
FirstRule(S) == CHOOSE r \in S : \A q \in S : r <= q

\* C34: at one statement the checks are made in the order (1) children that
\* are not permitted, (2) mandatory children that are missing, (3) children
\* that are too many, (4) the calls for the children; the error reported for a
\* statement with several violations is the first in that order, within (1)
\* the first child in child order and within (2) and (3) the first rule in
\* the order of the table, and nothing is checked after it.
C34_CheckOrder ==
    /\ \A n \in Nodes :
          /\ Before("find", "check1", n)
          /\ Before("check1", "check2", n)
          /\ Before("check2", "check3", n)
          /\ \A c \in ChildrenOf(n) : Did("call", c) =>
                 Passed("check3", n) /\ StepAt("check3", n) < StepAt("call", c)
    /\ clicon_err # NoErr =>
          LET n == clicon_err.yt
          IN  /\ log[Len(log)].step \in {"check1", "check2", "check3", "return"}
              /\ IF BadChildren(n) # {}
                 THEN /\ clicon_err.fmt = FMT_NOTCHILD
                      /\ clicon_err.ys = FirstBadChild(n)
                      /\ ~Did("check2", n)
                 ELSE IF UnmetRules(n) # {}
                 THEN /\ clicon_err.fmt = FMT_MISSING
                      /\ clicon_err.child_key = yclist[FirstRule(UnmetRules(n))].yc_child
                      /\ ~Did("check3", n)
                 ELSE /\ clicon_err.fmt = FMT_TOOMANY
                      /\ clicon_err.child_key = yclist[FirstRule(ExceededRules(n))].yc_child
                      /\ \A c \in ChildrenOf(n) : ~Visited(c)

\* The root has two children that are not permitted, misses a mandatory
\* child and the run has ended with the error for the first of the two
C34_Witness ==
    /\ yc_done
    /\ Cardinality(BadChildren(1)) >= 2
    /\ UnmetRules(1) # {}
    /\ clicon_err.fmt = FMT_NOTCHILD
    /\ clicon_err.ys = ys_stmt[1][1]

C36_Original ==
    /\ cl_pc = "idle" /\ cl_ret.op = "create-subscription" /\ cl_ret.retval = 0
           => Conn(calls, "create-subscription") \in conns
    /\ cl_pc = "idle" /\ cl_ret.op = "create-subscription" /\ cl_ret.retval = -1
       /\ cl_ret.reply = "rpc-error"
           => Conn(calls, "create-subscription") \notin conns

(***************************************************************************)
(* C37, C38: the plugins of the netconf application                        *)
(***************************************************************************)
\* The loaded plugins netconf_plugin_start has to start: those that define
\* plugin_start, in load order, up to the first whose plugin_start fails
FirstFailing ==
    IF \E i \in 1..Len(plugins) : plugins[i] = "start-fail"
    THEN CHOOSE i \in 1..Len(plugins) :
            /\ plugins[i] = "start-fail"
            /\ \A j \in 1..(i - 1) : plugins[j] # "start-fail"
    ELSE Len(plugins) + 1

ToStart ==
    SelectSeq([i \in 1..Len(plugins) |-> i],
              LAMBDA i : i <= FirstFailing /\ plugins[i] # "nostart")

\* C37: netconf_plugin_start calls plugin_start in all loaded plugins that
\* define it, in load order, and returns -1 at the first that fails; a plugin
\* without a start function does not keep later plugins from being started.
C37_Original ==
    pl_ret.fn = "start" =>
        /\ pl_started = ToStart
        /\ pl_ret.retval = (IF FirstFailing <= Len(plugins) THEN -1 ELSE 0)

\* The entries of the registry whose tag is the name of the node of the last
\* dispatch
Matching == {i \in 1..Len(deps) : deps[i].nr_tag = pl_ret.name}

FirstMatching == CHOOSE i \in Matching : \A j \in Matching : i <= j

\* C38: after any registrations and unloads, netconf_plugin_callbacks calls
\* at most one callback, the first of the registry whose tag is the name of
\* the node, and returns 1 if it succeeded and -1 if it failed; it calls none
\* and returns 0 if no tag is the name of the node.
C38_Dispatch ==
    pl_ret.fn = "callbacks" =>
        IF Matching = {}
        THEN pl_called = <<>> /\ pl_ret.retval = 0
        ELSE /\ pl_called = <<FirstMatching>>
             /\ pl_ret.retval =
                   (IF deps[FirstMatching].nr_callback = "cb-fail" THEN -1 ELSE 1)

\* Two callbacks are registered for the same tag, the one at the head of the
\* registry succeeds and the other would fail: the dispatch returns 1
C38_Witness ==
    /\ pl_ret.fn = "callbacks"
    /\ pl_ret.name = "t1"
    /\ Len(deps) = 2
    /\ deps[1] = [nr_callback |-> "cb-ok", nr_tag |-> "t1"]
    /\ deps[2] = [nr_callback |-> "cb-fail", nr_tag |-> "t1"]
    /\ pl_called = <<1>>
    /\ pl_ret.retval = 1

(***************************************************************************)
(* C39: boolean options                                                    *)
(***************************************************************************)
\* C39: after clicon_option_bool_set(h, name, 1) has succeeded
\* clicon_option_bool(h, name) returns 1, and after
\* clicon_option_bool_set(h, name, 0) it returns 0.
C39_Original ==
    opt_ret.fn = "bool_set" /\ opt_ret.retval = 0 =>
        BoolOf(copt[opt_ret.name]) = opt_ret.val

(***************************************************************************)
(* C40: termination of the restconf FastCGI process                        *)
(***************************************************************************)
\* C40: after the first termination signal no request is accepted any more
\* and the accept loop ends when it is entered next; the second signal makes
\* the process exit at once.
C40_Original ==
    /\ fc_late = 0
    /\ fc_i >= 2 => fc_pc = "exited"

============================================================================
